---- MODULE Spec2Model ----
(***************************************************************************)
(* Model of the local worktree server (packages/server): the request       *)
(* handlers for POST /worktree/create, /worktree/open and /terminal/test,  *)
(* the git service, the terminal service, the error mapping, the router    *)
(* with its CORS middleware; and of the worktree dialog of the extension   *)
(* with its API client.                                                    *)
(*                                                                         *)
(* Spec runs the request handlers, SpecFn calls the functions of the       *)
(* terminal service, the git service, the router and the extension on      *)
(* their own, SpecDialog runs the dialog against the answers of the        *)
(* service, SpecStorage runs two calls of addProjectMapping of the         *)
(* extension, SpecDaemon runs scripts/daemon.sh stop.                      *)
(*                                                                         *)
(* Strings are sequences of one-character strings, so that the string      *)
(* functions (replaceTokens, parseCommand, basename, buildWorktreePath)    *)
(* are computed character by character as the code computes them.          *)
(***************************************************************************)
EXTENDS Integers, Sequences, FiniteSets, TLC

(***************************************************************************)
(* Bounds and inputs                                                       *)
(***************************************************************************)
\* number of steps other processes (outside the server) may take on the
\* repository and the filesystem
MaxExt == 1

\* the two concurrently handled requests
Reqs == {"r1", "r2"}

\* paths
RepoMain == <<"/", "r">>          \* an existing git repository
NoSuchPath == <<"/", "n">>        \* a path that does not exist
PlainDir == <<"/", "p">>          \* an existing directory that is no repository
WtRoot == <<"/", "w">>            \* the worktree root

\* branch names
MainBranch == <<"m">>
NewBranch == <<"f">>
MissingBranch == <<"x">>

IssueId == <<"Q", "-", "3">>

\* terminal command templates: "t {directory}" and " "
CmdOk == <<"t", " ", "{", "d", "i", "r", "e", "c", "t", "o", "r", "y", "}">>
CmdBlank == <<" ">>

(***************************************************************************)
(* String helpers                                                          *)
(***************************************************************************)
\* s starts with p at position i (1-based)
MatchAt(s, p, i) ==
    /\ i + Len(p) - 1 <= Len(s)
    /\ \A k \in 1..Len(p) : s[i + k - 1] = p[k]

Drop(s, n) == SubSeq(s, n + 1, Len(s))

\* the replacement text of String.prototype.replace: "$$" inserts "$" and
\* "$&" inserts the matched substring; everything else is literal
RECURSIVE ReplacementText(_, _)
ReplacementText(val, matched) ==
    IF val = <<>> THEN <<>>
    ELSE IF Len(val) >= 2 /\ val[1] = "$" /\ val[2] = "$"
         THEN <<"$">> \o ReplacementText(Drop(val, 2), matched)
    ELSE IF Len(val) >= 2 /\ val[1] = "$" /\ val[2] = "&"
         THEN matched \o ReplacementText(Drop(val, 2), matched)
    ELSE <<val[1]>> \o ReplacementText(Drop(val, 1), matched)

\* s.replace(new RegExp(pat, "g"), val) for a literal pattern: every
\* non-overlapping occurrence, left to right; inserted text is not rescanned
RECURSIVE ReplaceAll(_, _, _)
ReplaceAll(s, pat, val) ==
    IF s = <<>> THEN <<>>
    ELSE IF MatchAt(s, pat, 1)
         THEN ReplacementText(val, pat) \o ReplaceAll(Drop(s, Len(pat)), pat, val)
    ELSE <<s[1]>> \o ReplaceAll(Drop(s, 1), pat, val)

PatDirectory == <<"{", "d", "i", "r", "e", "c", "t", "o", "r", "y", "}">>
PatIssueId == <<"{", "i", "s", "s", "u", "e", "I", "d", "}">>
PatBranchName == <<"{", "b", "r", "a", "n", "c", "h", "N", "a", "m", "e", "}">>

\* replaceTokens: one global replace per key, in the order of the keys of the
\* tokens object (directory, issueId, branchName), each on the result of the
\* previous one
replaceTokens(command, tokens) ==
    LET r1 == ReplaceAll(command, PatDirectory, tokens.directory)
        r2 == ReplaceAll(r1, PatIssueId, tokens.issueId)
    IN  ReplaceAll(r2, PatBranchName, tokens.branchName)

\* the tokenizer with a double quote toggling inside single quotes as well
RECURSIVE ParseLoop_NestedToggle(_, _, _, _, _, _)
ParseLoop_NestedToggle(command, i, parts, current, inS, inD) ==
    IF i > Len(command)
    THEN IF Len(current) > 0 THEN Append(parts, current) ELSE parts
    ELSE LET char == command[i] IN
         IF char = "'" /\ ~inD
         THEN ParseLoop_NestedToggle(command, i + 1, parts, current, ~inS, inD)
         ELSE IF char = "\""
         THEN ParseLoop_NestedToggle(command, i + 1, parts, current, inS, ~inD)
         ELSE IF char = " " /\ ~inS /\ ~inD
         THEN IF Len(current) > 0
              THEN ParseLoop_NestedToggle(command, i + 1, Append(parts, current),
                                          <<>>, inS, inD)
              ELSE ParseLoop_NestedToggle(command, i + 1, parts, current, inS, inD)
         ELSE ParseLoop_NestedToggle(command, i + 1, parts, Append(current, char),
                                     inS, inD)

\* parseCommand: the loop of the tokenizer; parts, current, inSingleQuote and
\* inDoubleQuote are the loop's variables, i the index (1-based)
RECURSIVE ParseLoop(_, _, _, _, _, _)
ParseLoop(command, i, parts, current, inS, inD) ==
    IF i > Len(command)
    THEN IF Len(current) > 0 THEN Append(parts, current) ELSE parts
    ELSE LET char == command[i] IN
         IF char = "'" /\ ~inD
         THEN ParseLoop(command, i + 1, parts, current, ~inS, inD)
         ELSE IF char = "\"" /\ ~inS
         THEN ParseLoop(command, i + 1, parts, current, inS, ~inD)
         ELSE IF char = " " /\ ~inS /\ ~inD
         THEN IF Len(current) > 0
              THEN ParseLoop(command, i + 1, Append(parts, current), <<>>, inS, inD)
              ELSE ParseLoop(command, i + 1, parts, current, inS, inD)
         ELSE ParseLoop(command, i + 1, parts, Append(current, char), inS, inD)

parseCommand(command) == ParseLoop(command, 1, <<>>, <<>>, FALSE, FALSE)

\* path.basename: trailing slashes are ignored, the result is what follows
\* the last remaining slash
RECURSIVE StripTrailingSlashes(_)
StripTrailingSlashes(p) ==
    IF Len(p) > 1 /\ p[Len(p)] = "/"
    THEN StripTrailingSlashes(SubSeq(p, 1, Len(p) - 1))
    ELSE p

RECURSIVE AfterLastSlash(_, _)
AfterLastSlash(p, i) ==
    IF i = 0 THEN p
    ELSE IF p[i] = "/" THEN Drop(p, i)
    ELSE AfterLastSlash(p, i - 1)

basename(p) ==
    LET q == StripTrailingSlashes(p)
    IN  IF q = <<"/">> THEN <<>> ELSE AfterLastSlash(q, Len(q))

getRepoName(repoPath) == basename(repoPath)

\* the path with the slashes at the end of the worktree root taken off
buildWorktreePath_Normalized(worktreeRoot, repoPath, branchName) ==
    StripTrailingSlashes(worktreeRoot) \o <<"/">> \o basename(repoPath)
    \o <<"/">> \o branchName

buildWorktreePath(worktreeRoot, repoPath, branchName) ==
    worktreeRoot \o <<"/">> \o getRepoName(repoPath) \o <<"/">> \o branchName

\* the one directory create requests of this model aim at: "/w/r/f"
TargetDir == buildWorktreePath(WtRoot, RepoMain, NewBranch)

(***************************************************************************)
(* JSON values and request bodies                                          *)
(***************************************************************************)
JStr(s) == [t |-> "string", v |-> s]
JUndef == [t |-> "undefined", v |-> <<>>]
JNum == [t |-> "number", v |-> <<>>]

Fields == {"issueId", "repoPath", "branchName", "baseBranch", "worktreeRoot",
           "terminalCommand", "directory"}

NoFields == [f \in Fields |-> JUndef]

\* what request.json() is applied to: text that is no JSON, the JSON values
\* null, a number, an array, or an object with the given fields
BodyUnparseable == [t |-> "unparseable", f |-> NoFields]
BodyNull == [t |-> "null", f |-> NoFields]
BodyNumber == [t |-> "number", f |-> NoFields]
BodyArray == [t |-> "array", f |-> NoFields]
Obj(f) == [t |-> "object", f |-> f]

\* typeof body === "object" && body !== null (an array is an object)
IsJsObject(body) == body.t \in {"object", "array"}

(***************************************************************************)
(* lib/errors.ts                                                           *)
(***************************************************************************)
\* a message is a fixed text followed by an interpolated argument
Msg(text, arg) == [text |-> text, arg |-> arg]

ValidationError(text, arg) ==
    [name |-> "ValidationError", message |-> Msg(text, arg),
     stderr |-> "", directory |-> <<>>]

GitError(text, arg, stderr) ==
    [name |-> "GitError", message |-> Msg(text, arg),
     stderr |-> stderr, directory |-> <<>>]

WorktreeExistsError(directory) ==
    [name |-> "WorktreeExistsError",
     message |-> Msg("Worktree already exists at ", directory),
     stderr |-> "", directory |-> directory]

BranchExistsError(branchName) ==
    [name |-> "BranchExistsError",
     message |-> Msg("Branch already exists: ", branchName),
     stderr |-> "", directory |-> <<>>]

\* any other Error: SyntaxError of request.json(), "Empty command after
\* parsing", a failed spawn, the timeout of the test mode
PlainError(name, text) ==
    [name |-> name, message |-> Msg(text, <<>>), stderr |-> "", directory |-> <<>>]

\* an HTTP response: status and the fields of the JSON body; a field the body
\* does not have is "absent" (strings) or <<>> (directory, expandedCommand)
Response(status, success, error, message, directory) ==
    [status |-> status, success |-> success, error |-> error,
     message |-> message, directory |-> directory,
     expandedCommand |-> <<>>, exitCode |-> -1]

NoMsg == Msg("absent", <<>>)
NoResponse == Response(0, "absent", "absent", NoMsg, <<>>)

\* the error mapping with the message of the error in the default case
errorToResponse_LeaksMessage(error) ==
    IF error.name = "ValidationError"
    THEN Response(400, "absent", "validation", error.message, <<>>)
    ELSE IF error.name = "WorktreeExistsError"
    THEN Response(409, "absent", "exists", error.message, error.directory)
    ELSE IF error.name = "BranchExistsError"
    THEN Response(409, "absent", "branch_exists", error.message, <<>>)
    ELSE IF error.name = "GitError"
    THEN Response(500, "absent", "git_error", error.message, <<>>)
    ELSE Response(500, "absent", "internal", error.message, <<>>)

\* errorToResponse: the status and body for an error, by its class
errorToResponse(error) ==
    IF error.name = "ValidationError"
    THEN Response(400, "absent", "validation", error.message, <<>>)
    ELSE IF error.name = "WorktreeExistsError"
    THEN Response(409, "absent", "exists", error.message, error.directory)
    ELSE IF error.name = "BranchExistsError"
    THEN Response(409, "absent", "branch_exists", error.message, <<>>)
    ELSE IF error.name = "GitError"
    THEN Response(500, "absent", "git_error", error.message, <<>>)
    ELSE Response(500, "absent", "internal",
                  Msg("An unexpected error occurred", <<>>), <<>>)

\* the catch block of the create and open handlers
HandlerCatch(error) == errorToResponse(error)

\* the catch block of the test handler: { success: false, ...body }
TestHandlerCatch(error) == [errorToResponse(error) EXCEPT !.success = "false"]

(***************************************************************************)
(* Request validation (routes/worktree.ts, routes/terminal.ts)             *)
(***************************************************************************)
CreateRequiredFields ==
    <<"issueId", "repoPath", "branchName", "baseBranch", "worktreeRoot",
      "terminalCommand">>

OpenRequiredFields == <<"directory", "terminalCommand", "issueId", "branchName">>

\* the field test without the test for the empty string
FieldBad_AllowsEmpty(body, field) == body.f[field].t # "string"

\* typeof obj[field] !== "string" || obj[field] === ""
FieldBad(body, field) ==
    body.f[field].t # "string" \/ body.f[field].v = <<>>

NoError == PlainError("none", "")

\* the loop over the required fields: the error of the first bad field
RECURSIVE FirstMissing(_, _, _)
FirstMissing(body, required, i) ==
    IF i > Len(required) THEN NoError
    ELSE IF FieldBad(body, required[i])
         THEN ValidationError("Missing required field: ", <<required[i]>>)
    ELSE FirstMissing(body, required, i + 1)

\* validateCreateRequest: the error it throws, NoError when it returns
validateCreateRequest(body) ==
    IF ~IsJsObject(body)
    THEN ValidationError("Request body must be a JSON object", <<>>)
    ELSE FirstMissing(body, CreateRequiredFields, 1)

validateOpenRequest(body) ==
    IF ~IsJsObject(body)
    THEN ValidationError("Request body must be a JSON object", <<>>)
    ELSE FirstMissing(body, OpenRequiredFields, 1)

\* an optional field: obj.x !== undefined && typeof obj.x !== "string"
OptionalBad(body, field) ==
    body.f[field].t # "undefined" /\ body.f[field].t # "string"

validateTestRequest(body) ==
    IF ~IsJsObject(body)
    THEN ValidationError("Request body must be a JSON object", <<>>)
    ELSE IF FieldBad(body, "terminalCommand")
    THEN ValidationError("Missing required field: ", <<"terminalCommand">>)
    ELSE IF OptionalBad(body, "directory")
    THEN ValidationError("Field must be a string: ", <<"directory">>)
    ELSE IF OptionalBad(body, "issueId")
    THEN ValidationError("Field must be a string: ", <<"issueId">>)
    ELSE IF OptionalBad(body, "branchName")
    THEN ValidationError("Field must be a string: ", <<"branchName">>)
    ELSE NoError

\* request.json(): the SyntaxError it throws, NoError when it returns
requestJson(body) ==
    IF body.t = "unparseable"
    THEN PlainError("SyntaxError", "JSON Parse error")
    ELSE NoError

(***************************************************************************)
(* State                                                                   *)
(***************************************************************************)
VARIABLES
    fs,         \* what is on disk at each directory the requests can name
    branches,   \* the local branches of the repository RepoMain
    extSteps,   \* steps other processes have taken so far
    rq,         \* per request: the handler's position, locals and response
    proc,       \* per request: the process the request has spawned
    crashed,    \* the service has died of an uncaught error
    px,         \* the last call of a function of the service on its own
    dlg,        \* the worktree dialog of the extension and its API client
    store,      \* chrome.storage.sync and the calls of addProjectMapping
    dmn         \* a run of daemon.sh and the server process it manages

vars == <<fs, branches, extSteps, rq, proc, crashed, px, dlg, store, dmn>>

\* the variables of the request handlers
srvVars == <<fs, branches, extSteps, rq, proc, crashed>>

\* "absent": nothing there; "empty": an empty directory; "plain": a directory
\* with content but no .git entry; "gitfile": a directory whose .git is a
\* regular file (a linked worktree); "gitdir": a directory whose .git is a
\* directory (a standalone clone)
DirStates == {"absent", "empty", "plain", "gitfile", "gitdir"}

MutableDirs == {TargetDir}

DirState(p) ==
    IF p \in MutableDirs THEN fs[p]
    ELSE IF p = RepoMain THEN "gitdir"
    ELSE IF p = PlainDir THEN "plain"
    ELSE "absent"

\* fs/promises exists(path)
exists(p) == DirState(p) # "absent"

\* fs/promises exists(`${directory}/.git`): true for a file and for a directory
existsDotGit(directory) == DirState(directory) \in {"gitfile", "gitdir"}

\* the .git entry of the directory is a regular file
HasGitFile(directory) == DirState(directory) = "gitfile"

\* checkWorktreeExists(directory).exists
checkWorktreeExists(directory) == exists(directory) /\ existsDotGit(directory)

\* execGitQuiet(repoPath, ["rev-parse", "--git-dir"]): exit code 0
GitRevParseOk(repoPath) == DirState(repoPath) \in {"gitfile", "gitdir"}

\* execGitQuiet(repoPath, ["show-ref", "--verify", "--quiet", refs/heads/b])
GitShowRefOk(repoPath, b) == GitRevParseOk(repoPath) /\ b \in branches

\* checkBranchExists(repoPath, branchName).exists
checkBranchExists(repoPath, branchName) == GitShowRefOk(repoPath, branchName)

\* git -C repoPath worktree add -b branch dir base, as git 2.x runs it: the
\* branch is created first (fails if it exists or the base is no commit),
\* then the worktree is added (fails if the path exists and is not an empty
\* directory; the branch just created may or may not be left behind)
GitWorktreeAdd(repoPath, branch, dir, base) ==
    IF branch \in branches
    THEN {[exit |-> 255, stderr |-> "fatal: a branch named already exists",
           fs |-> fs, branches |-> branches]}
    ELSE IF base \notin branches
    THEN {[exit |-> 255, stderr |-> "fatal: not a valid object name",
           fs |-> fs, branches |-> branches]}
    ELSE IF DirState(dir) \notin {"absent", "empty"}
    THEN {[exit |-> 128, stderr |-> "fatal: path already exists",
           fs |-> fs, branches |-> bs] : bs \in {branches, branches \cup {branch}}}
    ELSE {[exit |-> 0, stderr |-> "",
           fs |-> [fs EXCEPT ![dir] = "gitfile"],
           branches |-> branches \cup {branch}]}

(***************************************************************************)
(* Request bodies the callers send                                         *)
(***************************************************************************)
BadValues == {JUndef, JNum, JStr(<<>>)}

NonObjectBodies == {BodyUnparseable, BodyNull, BodyNumber, BodyArray}

CreateDefault ==
    [f \in Fields |->
        CASE f = "issueId" -> JStr(IssueId)
          [] f = "repoPath" -> JStr(RepoMain)
          [] f = "branchName" -> JStr(NewBranch)
          [] f = "baseBranch" -> JStr(MainBranch)
          [] f = "worktreeRoot" -> JStr(WtRoot)
          [] f = "terminalCommand" -> JStr(CmdOk)
          [] OTHER -> JUndef]

CreateBodies ==
    {Obj([CreateDefault EXCEPT !["repoPath"] = JStr(rp),
                               !["baseBranch"] = JStr(bb),
                               !["terminalCommand"] = JStr(tc)]) :
        rp \in {RepoMain, NoSuchPath, PlainDir},
        bb \in {MainBranch, MissingBranch},
        tc \in {CmdOk, CmdBlank}}
    \cup {Obj([CreateDefault EXCEPT ![fld] = bad]) :
            fld \in {CreateRequiredFields[i] : i \in 1..Len(CreateRequiredFields)},
            bad \in BadValues}
    \cup NonObjectBodies

OpenDefault ==
    [f \in Fields |->
        CASE f = "directory" -> JStr(TargetDir)
          [] f = "terminalCommand" -> JStr(CmdOk)
          [] f = "issueId" -> JStr(IssueId)
          [] f = "branchName" -> JStr(NewBranch)
          [] OTHER -> JUndef]

OpenBodies ==
    {Obj([OpenDefault EXCEPT !["directory"] = JStr(d),
                             !["terminalCommand"] = JStr(tc)]) :
        d \in {TargetDir, NoSuchPath, PlainDir}, tc \in {CmdOk, CmdBlank}}
    \cup {Obj([OpenDefault EXCEPT ![fld] = bad]) :
            fld \in {OpenRequiredFields[i] : i \in 1..Len(OpenRequiredFields)},
            bad \in BadValues}
    \cup NonObjectBodies

TestDefault ==
    [f \in Fields |->
        CASE f = "terminalCommand" -> JStr(CmdOk)
          [] OTHER -> JUndef]

TestBodies ==
    {Obj([TestDefault EXCEPT !["terminalCommand"] = JStr(tc),
                             !["directory"] = d]) :
        tc \in {CmdOk, CmdBlank}, d \in {JUndef, JStr(PlainDir)}}
    \cup {Obj([TestDefault EXCEPT !["terminalCommand"] = bad]) : bad \in BadValues}
    \cup {Obj([TestDefault EXCEPT ![fld] = JNum]) :
            fld \in {"directory", "issueId", "branchName"}}
    \cup NonObjectBodies

(***************************************************************************)
(* Initial state                                                           *)
(***************************************************************************)
IdleRq ==
    [pc |-> "idle", kind |-> "none", body |-> BodyNull, dir |-> <<>>,
     entry |-> [wt |-> FALSE, br |-> FALSE, ds |-> "absent"], passed |-> {},
     gitExit |-> -1, gitStderr |-> "", resp |-> NoResponse,
     gitAddCalls |-> 0, spawned |-> 0,
     caught |-> NoError, responses |-> 0, spawnCalls |-> 0]

\* no process; beforeTimeout: the process exited while the timer was pending
NoProc ==
    [state |-> "none", drain |-> "none", timer |-> "none", log |-> {},
     beforeTimeout |-> FALSE]

\* no function called yet
NoCall == [fn |-> "none", arg |-> <<>>, out |-> <<>>]

\* the dialog before it is opened: DialogState { type: "closed" }, no
\* request sent; loads: the calls of getConfig not yet settled; config: the
\* configuration is loaded (not null); lastEvent: the handler or callback
\* that acted last
NoDialog ==
    [type |-> "closed", directory |-> JUndef, message |-> NoMsg,
     form |-> [repoPath |-> <<>>, branchName |-> <<>>],
     worktreeRoot |-> <<>>,
     call |-> "none", body |-> BodyNull, answer |-> NoResponse,
     loads |-> 0, config |-> FALSE, lastEvent |-> "none"]

\* the callers of addProjectMapping and the JavaScript contexts (tabs) they
\* run in
Callers == {"a", "b"}
Contexts == {"tab1", "tab2"}

\* nothing stored, no call made
NoStore ==
    [has |-> FALSE, maps |-> {}, before |-> {},
     defaults |-> [x \in Contexts |-> {}],
     call |-> [c \in Callers |->
                [pc |-> "none", ctx |-> "tab1", workspace |-> "", projectCode |-> "",
                 ref |-> "none", copy |-> {}]]]

\* daemon.sh is not run
NoDaemon ==
    [pc |-> "none", command |-> "none", errexit |-> FALSE, server |-> "dead",
     onTerm |-> "exits", pidFile |-> FALSE, count |-> 0, wasRunning |-> FALSE,
     sigterm |-> FALSE, sigkill |-> FALSE, exitCode |-> -1]

\* the service after start, no request received
InitSrv ==
    /\ fs = [d \in MutableDirs |-> "absent"]
    /\ branches = {MainBranch}
    /\ extSteps = 0
    /\ rq = [r \in Reqs |-> IdleRq]
    /\ proc = [r \in Reqs |-> NoProc]
    /\ crashed = FALSE

Init ==
    /\ InitSrv
    /\ px = NoCall
    /\ dlg = NoDialog
    /\ store = NoStore
    /\ dmn = NoDaemon

Field(r, name) == rq[r].body.f[name].v

(***************************************************************************)
(* Terminal service                                                        *)
(***************************************************************************)
\* the launch without the test for an empty argument vector
executeTerminalCommand_NoEmptyCheck(command, tokens, spawnOk) ==
    IF ~spawnOk THEN PlainError("Error", "spawn failed") ELSE NoError

\* executeTerminalCommand and the synchronous head of
\* executeTerminalCommandWithCapture: the error thrown, NoError when the
\* process was spawned (spawnOk: Bun.spawn found and started the executable)
executeTerminalCommand(command, tokens, spawnOk) ==
    LET finalCommand == replaceTokens(command, tokens)
        parts == parseCommand(finalCommand)
    IN  IF Len(parts) = 0
        THEN PlainError("Error", "Empty command after parsing")
        ELSE IF ~spawnOk
        THEN PlainError("Error", "spawn failed")
        ELSE NoError

StartedProc(timer) ==
    [state |-> "running", drain |-> "reading", timer |-> timer, log |-> {},
     beforeTimeout |-> FALSE]

\* the handler returns a response: the one response of the request
Respond(q, resp) ==
    [q EXCEPT !.pc = "done", !.resp = resp, !.responses = @ + 1]

\* the catch block of the create and open handlers is entered with err
Thrown(q, err) == [Respond(q, HandlerCatch(err)) EXCEPT !.caught = err]

\* the catch block of the test handler is entered with err
ThrownTest(q, err) == [Respond(q, TestHandlerCatch(err)) EXCEPT !.caught = err]

\* the calls of Bun.spawn behind an outcome of executeTerminalCommand: none
\* when it threw before the spawn
SpawnCallsOf(err) ==
    IF err.message.text = "Empty command after parsing" THEN 0 ELSE 1

\* the response and the spawned process of a launch from the create or open
\* handler: the call of executeTerminalCommand and the return that follows it
LaunchAndRespond(r, tokens, success) ==
    \E spawnOk \in BOOLEAN :
        LET err == executeTerminalCommand(Field(r, "terminalCommand"), tokens, spawnOk)
        IN  IF err # NoError
            THEN /\ rq' = [rq EXCEPT
                            ![r] = [Thrown(@, err) EXCEPT
                                        !.spawnCalls = @ + SpawnCallsOf(err)]]
                 /\ UNCHANGED proc
            ELSE /\ rq' = [rq EXCEPT
                            ![r] = [Respond(@, success) EXCEPT
                                        !.spawned = @ + 1,
                                        !.spawnCalls = @ + 1]]
                 /\ proc' = [proc EXCEPT ![r] = StartedProc("none")]

Fail(r, err) == rq' = [rq EXCEPT ![r] = Thrown(@, err)]

(***************************************************************************)
(* POST /worktree/create                                                   *)
(***************************************************************************)
\* await request.json(); validateCreateRequest(body)
ReceiveCreate(r) ==
    /\ ~crashed
    /\ rq[r].pc = "idle"
    /\ \E b \in CreateBodies :
        LET err == IF requestJson(b) # NoError THEN requestJson(b)
                   ELSE validateCreateRequest(b)
            q == [rq[r] EXCEPT !.kind = "create", !.body = b]
        IN  rq' = [rq EXCEPT
                    ![r] = IF err = NoError
                           THEN [q EXCEPT !.pc = "repoExists"]
                           ELSE Thrown(q, err)]
    /\ UNCHANGED <<fs, branches, extSteps, proc, crashed, px, dlg, store, dmn>>

\* validateRepoPath: if (!await exists(repoPath)) throw
RepoExists(r) ==
    /\ ~crashed
    /\ rq[r].pc = "repoExists"
    /\ IF ~exists(Field(r, "repoPath"))
       THEN Fail(r, ValidationError("Repository path does not exist: ",
                                    Field(r, "repoPath")))
       ELSE rq' = [rq EXCEPT ![r].pc = "repoRevParse"]
    /\ UNCHANGED <<fs, branches, extSteps, proc, crashed, px, dlg, store, dmn>>

\* validateRepoPath: git rev-parse --git-dir; then buildWorktreePath and the
\* call of createWorktree
RepoRevParse(r) ==
    /\ ~crashed
    /\ rq[r].pc = "repoRevParse"
    /\ IF ~GitRevParseOk(Field(r, "repoPath"))
       THEN Fail(r, ValidationError("Not a git repository: ", Field(r, "repoPath")))
       ELSE LET worktreeDirectory ==
                    buildWorktreePath(Field(r, "worktreeRoot"),
                                      Field(r, "repoPath"),
                                      Field(r, "branchName"))
            IN  rq' = [rq EXCEPT
                    ![r].pc = "wtDir",
                    ![r].dir = worktreeDirectory,
                    ![r].entry =
                        [wt |-> HasGitFile(worktreeDirectory),
                         br |-> Field(r, "branchName") \in branches,
                         ds |-> DirState(worktreeDirectory)]]
    /\ UNCHANGED <<fs, branches, extSteps, proc, crashed, px, dlg, store, dmn>>

\* createWorktree -> checkWorktreeExists: await exists(directory)
CreateWtDir(r) ==
    /\ ~crashed
    /\ rq[r].pc = "wtDir"
    /\ rq' = [rq EXCEPT ![r].pc = IF exists(rq[r].dir) THEN "wtGit" ELSE "newBranch"]
    /\ UNCHANGED <<fs, branches, extSteps, proc, crashed, px, dlg, store, dmn>>

\* createWorktree with the branch check before the worktree check
CreateWtGit_BranchFirst(r) ==
    /\ ~crashed
    /\ rq[r].pc = "wtGit"
    /\ IF checkBranchExists(Field(r, "repoPath"), Field(r, "branchName"))
       THEN Fail(r, BranchExistsError(Field(r, "branchName")))
       ELSE IF existsDotGit(rq[r].dir)
       THEN Fail(r, WorktreeExistsError(rq[r].dir))
       ELSE rq' = [rq EXCEPT ![r].pc = "newBranch"]
    /\ UNCHANGED <<fs, branches, extSteps, proc, crashed, px, dlg, store, dmn>>

\* createWorktree -> checkWorktreeExists: await exists(`${directory}/.git`)
CreateWtGit(r) ==
    /\ ~crashed
    /\ rq[r].pc = "wtGit"
    /\ IF existsDotGit(rq[r].dir)
       THEN Fail(r, WorktreeExistsError(rq[r].dir))
       ELSE rq' = [rq EXCEPT ![r].pc = "newBranch"]
    /\ UNCHANGED <<fs, branches, extSteps, proc, crashed, px, dlg, store, dmn>>

\* createWorktree: checkBranchExists(repoPath, branchName)
CreateNewBranch(r) ==
    /\ ~crashed
    /\ rq[r].pc = "newBranch"
    /\ IF checkBranchExists(Field(r, "repoPath"), Field(r, "branchName"))
       THEN Fail(r, BranchExistsError(Field(r, "branchName")))
       ELSE rq' = [rq EXCEPT ![r].pc = "baseBranch"]
    /\ UNCHANGED <<fs, branches, extSteps, proc, crashed, px, dlg, store, dmn>>

\* createWorktree without the call of validateBaseBranch
CreateBaseBranch_Skipped(r) ==
    /\ ~crashed
    /\ rq[r].pc = "baseBranch"
    /\ rq' = [rq EXCEPT ![r].pc = "gitAdd"]
    /\ UNCHANGED <<fs, branches, extSteps, proc, crashed, px, dlg, store, dmn>>

\* createWorktree: validateBaseBranch(repoPath, baseBranch)
CreateBaseBranch(r) ==
    /\ ~crashed
    /\ rq[r].pc = "baseBranch"
    /\ IF ~checkBranchExists(Field(r, "repoPath"), Field(r, "baseBranch"))
       THEN Fail(r, ValidationError("Base branch does not exist: ",
                                    Field(r, "baseBranch")))
       ELSE rq' = [rq EXCEPT ![r].pc = "gitAdd"]
    /\ UNCHANGED <<fs, branches, extSteps, proc, crashed, px, dlg, store, dmn>>

\* the arguments createWorktree passes to git worktree add -b
WorktreeAddArgs(r) ==
    [branch |-> Field(r, "branchName"), dir |-> rq[r].dir,
     base |-> Field(r, "baseBranch")]

\* execGit(repoPath, ["worktree", "add", "-b", ...]): the git process runs
CreateGitAdd(r) ==
    /\ ~crashed
    /\ rq[r].pc = "gitAdd"
    /\ LET a == WorktreeAddArgs(r) IN
       \E out \in GitWorktreeAdd(Field(r, "repoPath"), a.branch, a.dir, a.base) :
        /\ fs' = out.fs
        /\ branches' = out.branches
        /\ rq' = [rq EXCEPT ![r].pc = "afterAdd",
                            ![r].gitAddCalls = @ + 1,
                            ![r].gitExit = out.exit,
                            ![r].gitStderr = out.stderr]
    /\ UNCHANGED <<extSteps, proc, crashed, px, dlg, store, dmn>>

\* execGit without the test of the exit code
execGit_IgnoresExit(exitCode, args, stderr) == NoError

\* execGit: the error it throws for the exit code, NoError when it returns
execGit(exitCode, args, stderr) ==
    IF exitCode # 0
    THEN GitError("Git command failed: git worktree add -b ", args, stderr)
    ELSE NoError

\* the create handler running git worktree add a second time after a failure
CreateAfterAdd_Retry(r) ==
    /\ ~crashed
    /\ rq[r].pc = "afterAdd"
    /\ IF rq[r].gitExit # 0
       THEN /\ rq' = [rq EXCEPT ![r].pc = "gitAdd"]
            /\ UNCHANGED proc
       ELSE LaunchAndRespond(r,
                [directory |-> rq[r].dir, issueId |-> Field(r, "issueId"),
                 branchName |-> Field(r, "branchName")],
                Response(200, "true", "absent", NoMsg, rq[r].dir))
    /\ UNCHANGED <<fs, branches, extSteps, crashed, px, dlg, store, dmn>>

\* the create handler taking the worktree and the branch away again when the
\* launch of the terminal fails
CreateAfterAdd_Rollback(r) ==
    /\ ~crashed
    /\ rq[r].pc = "afterAdd"
    /\ LET a == WorktreeAddArgs(r)
           err == execGit(rq[r].gitExit,
                          a.branch \o <<" ">> \o a.dir \o <<" ">> \o a.base,
                          rq[r].gitStderr)
       IN  IF err # NoError
           THEN Fail(r, err) /\ UNCHANGED <<proc, fs, branches>>
           ELSE /\ LaunchAndRespond(r,
                    [directory |-> rq[r].dir, issueId |-> Field(r, "issueId"),
                     branchName |-> Field(r, "branchName")],
                    Response(200, "true", "absent", NoMsg, rq[r].dir))
                /\ IF rq'[r].resp.status # 200
                   THEN /\ fs' = [fs EXCEPT ![a.dir] = "absent"]
                        /\ branches' = branches \ {a.branch}
                   ELSE UNCHANGED <<fs, branches>>
    /\ UNCHANGED <<extSteps, crashed, px, dlg, store, dmn>>

\* execGit returns or throws; on return createWorktree returns the directory,
\* the handler launches the terminal and responds
CreateAfterAdd(r) ==
    /\ ~crashed
    /\ rq[r].pc = "afterAdd"
    /\ LET a == WorktreeAddArgs(r)
           err == execGit(rq[r].gitExit,
                          a.branch \o <<" ">> \o a.dir \o <<" ">> \o a.base,
                          rq[r].gitStderr)
       IN  IF err # NoError
           THEN Fail(r, err) /\ UNCHANGED proc
           ELSE LaunchAndRespond(r,
                    [directory |-> rq[r].dir, issueId |-> Field(r, "issueId"),
                     branchName |-> Field(r, "branchName")],
                    Response(200, "true", "absent", NoMsg, rq[r].dir))
    /\ UNCHANGED <<fs, branches, extSteps, crashed, px, dlg, store, dmn>>

(***************************************************************************)
(* POST /worktree/open                                                     *)
(***************************************************************************)
\* await request.json(); validateOpenRequest(body)
ReceiveOpen(r) ==
    /\ ~crashed
    /\ rq[r].pc = "idle"
    /\ \E b \in OpenBodies :
        LET err == IF requestJson(b) # NoError THEN requestJson(b)
                   ELSE validateOpenRequest(b)
            q == [rq[r] EXCEPT !.kind = "open", !.body = b,
                               !.dir = b.f["directory"].v]
        IN  rq' = [rq EXCEPT
                    ![r] = IF err = NoError
                           THEN [q EXCEPT !.pc = "openExists"]
                           ELSE Thrown(q, err)]
    /\ UNCHANGED <<fs, branches, extSteps, proc, crashed, px, dlg, store, dmn>>

\* const dirExists = await exists(data.directory)
OpenExists(r) ==
    /\ ~crashed
    /\ rq[r].pc = "openExists"
    /\ IF ~exists(rq[r].dir)
       THEN Fail(r, ValidationError("Directory does not exist", <<>>))
       ELSE rq' = [rq EXCEPT ![r].pc = "openWtDir", ![r].passed = @ \cup {"exists"}]
    /\ UNCHANGED <<fs, branches, extSteps, proc, crashed, px, dlg, store, dmn>>

\* checkWorktreeExists: await exists(directory)
OpenWtDir(r) ==
    /\ ~crashed
    /\ rq[r].pc = "openWtDir"
    /\ IF ~exists(rq[r].dir)
       THEN Fail(r, ValidationError("Directory is not a valid git worktree", <<>>))
       ELSE rq' = [rq EXCEPT ![r].pc = "openWtGit"]
    /\ UNCHANGED <<fs, branches, extSteps, proc, crashed, px, dlg, store, dmn>>

\* the open handler launching without looking at the .git entry
OpenWtGit_Unchecked(r) ==
    /\ ~crashed
    /\ rq[r].pc = "openWtGit"
    /\ \E spawnOk \in BOOLEAN :
        LET err == executeTerminalCommand(Field(r, "terminalCommand"),
                      [directory |-> rq[r].dir, issueId |-> Field(r, "issueId"),
                       branchName |-> Field(r, "branchName")], spawnOk)
        IN  IF err # NoError
            THEN /\ rq' = [rq EXCEPT
                            ![r] = [Thrown(@, err) EXCEPT
                                        !.spawnCalls = @ + SpawnCallsOf(err)]]
                 /\ UNCHANGED proc
            ELSE /\ rq' = [rq EXCEPT
                            ![r] = [Respond(@, Response(200, "true", "absent",
                                                        NoMsg, <<>>)) EXCEPT
                                        !.spawned = @ + 1,
                                        !.spawnCalls = @ + 1]]
                 /\ proc' = [proc EXCEPT ![r] = StartedProc("none")]
    /\ UNCHANGED <<fs, branches, extSteps, crashed, px, dlg, store, dmn>>

\* checkWorktreeExists: await exists(`${directory}/.git`); then the launch
OpenWtGit(r) ==
    /\ ~crashed
    /\ rq[r].pc = "openWtGit"
    /\ IF ~existsDotGit(rq[r].dir)
       THEN /\ Fail(r, ValidationError("Directory is not a valid git worktree", <<>>))
            /\ UNCHANGED proc
       ELSE \E spawnOk \in BOOLEAN :
            LET err == executeTerminalCommand(Field(r, "terminalCommand"),
                          [directory |-> rq[r].dir, issueId |-> Field(r, "issueId"),
                           branchName |-> Field(r, "branchName")], spawnOk)
            IN  IF err # NoError
                THEN /\ rq' = [rq EXCEPT
                                ![r] = [Thrown(@, err) EXCEPT
                                            !.passed = @ \cup {"worktree"},
                                            !.spawnCalls = @ + SpawnCallsOf(err)]]
                     /\ UNCHANGED proc
                ELSE /\ rq' = [rq EXCEPT
                                ![r] = [Respond(@, Response(200, "true", "absent",
                                                            NoMsg, <<>>)) EXCEPT
                                            !.passed = @ \cup {"worktree"},
                                            !.spawned = @ + 1,
                                            !.spawnCalls = @ + 1]]
                     /\ proc' = [proc EXCEPT ![r] = StartedProc("none")]
    /\ UNCHANGED <<fs, branches, extSteps, crashed, px, dlg, store, dmn>>

(***************************************************************************)
(* POST /terminal/test                                                     *)
(***************************************************************************)
HomeDir == <<"/", "h">>
DefaultIssueId == <<"T", "E", "S", "T", "-", "1">>
DefaultBranchName == <<"t", "e", "s", "t", "-", "b", "r", "a", "n", "c", "h">>

\* data.x || default: undefined and "" both take the default
OrDefault(v, default) == IF v.t = "undefined" \/ v.v = <<>> THEN default ELSE v.v

TestTokens(b) ==
    [directory |-> OrDefault(b.f["directory"], HomeDir),
     issueId |-> OrDefault(b.f["issueId"], DefaultIssueId),
     branchName |-> OrDefault(b.f["branchName"], DefaultBranchName)]

\* await request.json(); validateTestRequest(body); the synchronous head of
\* executeTerminalCommandWithCapture up to the await of Promise.race
ReceiveTest(r) ==
    /\ ~crashed
    /\ rq[r].pc = "idle"
    /\ \E b \in TestBodies, spawnOk \in BOOLEAN :
        LET verr == IF requestJson(b) # NoError THEN requestJson(b)
                    ELSE validateTestRequest(b)
            err == IF verr # NoError THEN verr
                   ELSE executeTerminalCommand(b.f["terminalCommand"].v,
                                               TestTokens(b), spawnOk)
            q == [rq[r] EXCEPT !.kind = "test", !.body = b]
        IN  /\ rq' = [rq EXCEPT
                    ![r] = IF err = NoError
                           THEN [q EXCEPT !.pc = "capture", !.spawned = @ + 1,
                                          !.spawnCalls = @ + 1]
                           ELSE IF verr # NoError THEN ThrownTest(q, err)
                           ELSE [ThrownTest(q, err) EXCEPT
                                    !.spawnCalls = @ + SpawnCallsOf(err)]]
            /\ proc' = IF err = NoError
                       THEN [proc EXCEPT ![r] = StartedProc("armed")]
                       ELSE proc
    /\ UNCHANGED <<fs, branches, extSteps, crashed, px, dlg, store, dmn>>

ExitCodeOf(p) == IF p.state = "exit0" THEN 0 ELSE 1

\* stdoutPromise and stderrPromise: both readers have read to the end of
\* their stream, which every holder of the write end has closed (the
\* spawned program and any child it left behind)
CaptureEOF(r) ==
    /\ ~crashed
    /\ rq[r].kind = "test"
    /\ proc[r].drain = "reading"
    /\ proc' = [proc EXCEPT ![r].drain = "done"]
    /\ UNCHANGED <<fs, branches, extSteps, rq, crashed, px, dlg, store, dmn>>

\* Promise.all([stdoutPromise, stderrPromise, proc.exited]) wins the race:
\* 200 with the expanded command and the exit code
CaptureComplete(r) ==
    /\ ~crashed
    /\ rq[r].pc = "capture"
    /\ proc[r].state \in {"exit0", "exit1"}
    /\ proc[r].drain = "done"
    /\ rq' = [rq EXCEPT
            ![r] = Respond(@,
                [Response(200, "true", "absent", NoMsg, <<>>) EXCEPT
                    !.expandedCommand =
                        replaceTokens(Field(r, "terminalCommand"),
                                      TestTokens(rq[r].body)),
                    !.exitCode = ExitCodeOf(proc[r])])]
    /\ UNCHANGED <<fs, branches, extSteps, proc, crashed, px, dlg, store, dmn>>

\* a read of the captured stdout or stderr rejects: Promise.all rejects, the
\* catch blocks rethrow and the handler answers
CaptureFail(r) ==
    /\ ~crashed
    /\ rq[r].pc = "capture"
    /\ proc[r].drain = "reading"
    /\ rq' = [rq EXCEPT ![r] = ThrownTest(@, PlainError("Error", "read failed"))]
    /\ proc' = [proc EXCEPT ![r].drain = "failed"]
    /\ UNCHANGED <<fs, branches, extSteps, crashed, px, dlg, store, dmn>>

\* proc.kill() without an argument sends SIGTERM: a running program that
\* leaves the signal at its default disposition dies of it, one that
\* handles or ignores it keeps running; on a program that has exited the
\* call does nothing
ProcKill(state) == IF state = "running" THEN {"killed", "running"} ELSE {state}

\* the setTimeout callback: proc.kill(), reject(new Error("Command timed out"));
\* the timer is never cleared, so it also fires after the race is decided
TestTimeout(r) ==
    /\ ~crashed
    /\ proc[r].timer = "armed"
    /\ \E st \in ProcKill(proc[r].state) :
        proc' = [proc EXCEPT ![r].timer = "fired", ![r].state = st]
    /\ IF rq[r].pc = "capture"
       THEN rq' = [rq EXCEPT
                    ![r] = ThrownTest(@, PlainError("Error", "Command timed out"))]
       ELSE UNCHANGED rq
    /\ UNCHANGED <<fs, branches, extSteps, crashed, px, dlg, store, dmn>>

(***************************************************************************)
(* Spawned processes and captureProcessOutput                              *)
(***************************************************************************)
\* the spawned program exits with some exit code
ProcExit(r) ==
    /\ ~crashed
    /\ proc[r].state = "running"
    /\ \E st \in {"exit0", "exit1"} :
        proc' = [proc EXCEPT ![r].state = st,
                             ![r].beforeTimeout = (proc[r].timer = "armed")]
    /\ UNCHANGED <<fs, branches, extSteps, rq, crashed, px, dlg, store, dmn>>

\* captureProcessOutput reads both streams to their end, awaits proc.exited
\* and logs the exit code
DrainDone(r) ==
    /\ ~crashed
    /\ rq[r].kind \in {"create", "open"}
    /\ proc[r].drain = "reading"
    /\ proc[r].state \in {"exit0", "exit1"}
    /\ proc' = [proc EXCEPT
            ![r].drain = "done",
            ![r].log = @ \cup {IF proc[r].state = "exit1"
                               THEN "warn: Process exited with non-zero code"
                               ELSE "debug: Process exited successfully"}]
    /\ UNCHANGED <<fs, branches, extSteps, rq, crashed, px, dlg, store, dmn>>

\* captureProcessOutput without its try/catch: the rejected read is an
\* unhandled rejection, which ends the service
DrainFail_Uncaught(r) ==
    /\ ~crashed
    /\ rq[r].kind \in {"create", "open"}
    /\ proc[r].drain = "reading"
    /\ proc' = [proc EXCEPT ![r].drain = "failed"]
    /\ crashed' = TRUE
    /\ UNCHANGED <<fs, branches, extSteps, rq, px, dlg, store, dmn>>

\* a read in captureProcessOutput rejects: the catch block logs the error
DrainFail(r) ==
    /\ ~crashed
    /\ rq[r].kind \in {"create", "open"}
    /\ proc[r].drain = "reading"
    /\ proc' = [proc EXCEPT
            ![r].drain = "failed",
            ![r].log = @ \cup {"error: Error capturing process output"}]
    /\ UNCHANGED <<fs, branches, extSteps, rq, crashed, px, dlg, store, dmn>>

(***************************************************************************)
(* Other processes working on the same repository and directories          *)
(***************************************************************************)
\* git branch <NewBranch> run by someone else
ExtCreateBranch ==
    /\ extSteps < MaxExt
    /\ NewBranch \notin branches
    /\ branches' = branches \cup {NewBranch}
    /\ extSteps' = extSteps + 1
    /\ UNCHANGED <<fs, rq, proc, crashed, px, dlg, store, dmn>>

\* someone else creates the target directory: empty, with content, as a clone
\* or as a linked worktree of another branch
ExtMakeDir ==
    /\ extSteps < MaxExt
    /\ \E d \in MutableDirs, st \in DirStates \ {"absent"} :
        /\ fs[d] = "absent"
        /\ fs' = [fs EXCEPT ![d] = st]
    /\ extSteps' = extSteps + 1
    /\ UNCHANGED <<branches, rq, proc, crashed, px, dlg, store, dmn>>

(***************************************************************************)
(* Specification                                                           *)
(***************************************************************************)
Next ==
    \/ \E r \in Reqs : ReceiveCreate(r)
    \/ \E r \in Reqs : RepoExists(r)
    \/ \E r \in Reqs : RepoRevParse(r)
    \/ \E r \in Reqs : CreateWtDir(r)
    \/ \E r \in Reqs : CreateWtGit(r)
    \/ \E r \in Reqs : CreateNewBranch(r)
    \/ \E r \in Reqs : CreateBaseBranch(r)
    \/ \E r \in Reqs : CreateGitAdd(r)
    \/ \E r \in Reqs : CreateAfterAdd(r)
    \/ \E r \in Reqs : ReceiveOpen(r)
    \/ \E r \in Reqs : OpenExists(r)
    \/ \E r \in Reqs : OpenWtDir(r)
    \/ \E r \in Reqs : OpenWtGit(r)
    \/ \E r \in Reqs : ReceiveTest(r)
    \/ \E r \in Reqs : CaptureEOF(r)
    \/ \E r \in Reqs : CaptureComplete(r)
    \/ \E r \in Reqs : CaptureFail(r)
    \/ \E r \in Reqs : TestTimeout(r)
    \/ \E r \in Reqs : ProcExit(r)
    \/ \E r \in Reqs : DrainDone(r)
    \/ \E r \in Reqs : DrainFail(r)
    \/ ExtCreateBranch
    \/ ExtMakeDir

Spec == Init /\ [][Next]_vars

TypeOK ==
    /\ fs \in [MutableDirs -> DirStates]
    /\ extSteps \in 0..MaxExt
    /\ crashed \in BOOLEAN
    /\ \A r \in Reqs :
        /\ rq[r].gitAddCalls \in 0..1 /\ rq[r].spawned \in 0..1
        /\ rq[r].spawnCalls \in 0..1 /\ rq[r].responses \in 0..1
        /\ proc[r].state \in {"none", "running", "exit0", "exit1", "killed"}
        /\ proc[r].drain \in {"none", "reading", "done", "failed"}
        /\ proc[r].timer \in {"none", "armed", "fired"}

(***************************************************************************)
(* The functions of the terminal service, called on their own              *)
(***************************************************************************)
\* a template is made of at most MaxPieces pieces, a command of at most
\* MaxLen characters
MaxPieces == 2
MaxLen == 4

RECURSIVE Flatten(_)
Flatten(ss) == IF ss = <<>> THEN <<>> ELSE ss[1] \o Flatten(Tail(ss))

\* all sequences over S of length at most n
SeqsUpTo(S, n) == UNION {[1..k -> S] : k \in 0..n}

\* the pieces of a command template: the three placeholders, a placeholder
\* of no token, ordinary text
TemplatePieces ==
    {PatDirectory, PatIssueId, PatBranchName,
     <<"{", "x", "}">>, <<"a">>, <<" ">>}

Templates == {Flatten(ps) : ps \in SeqsUpTo(TemplatePieces, MaxPieces)}

\* token values: ordinary text, text that reads as a placeholder, text with
\* the characters String.prototype.replace treats specially
TokenValues ==
    {<<"v">>, <<"/", "w", " ", "d">>, PatIssueId, PatBranchName, PatDirectory,
     <<"$", "&">>, <<"U", "$", "$">>}

TokenSets == [directory : TokenValues, issueId : TokenValues,
              branchName : TokenValues]

\* replaceTokens is given a template and the token values
CallReplaceTokens ==
    /\ px.fn = "none"
    /\ px.arg.for = "replaceTokens"
    /\ px' = [px EXCEPT !.fn = "replaceTokens",
                        !.out = replaceTokens(px.arg.command, px.arg.tokens)]
    /\ UNCHANGED <<srvVars, dlg, store, dmn>>

\* the characters of an expanded command: a letter, the whitespace
\* characters space, tab and newline, the two quotes
CmdChars == {"a", " ", "\t", "\n", "'", "\""}

Commands == SeqsUpTo(CmdChars, MaxLen)

\* parseCommand is given an expanded command
CallParseCommand ==
    /\ px.fn = "none"
    /\ px.arg.for = "parseCommand"
    /\ px' = [px EXCEPT !.fn = "parseCommand",
                        !.out = parseCommand(px.arg.command)]
    /\ UNCHANGED <<srvVars, dlg, store, dmn>>

(***************************************************************************)
(* middleware/cors.ts and Router.handle                                    *)
(***************************************************************************)
JNull == [t |-> "null", v |-> <<>>]

ChromeExtensionPrefix ==
    <<"c", "h", "r", "o", "m", "e", "-", "e", "x", "t", "e", "n", "s", "i", "o",
      "n", ":", "/", "/">>

LinearOrigin ==
    <<"h", "t", "t", "p", "s", ":", "/", "/", "l", "i", "n", "e", "a", "r", ".",
      "a", "p", "p">>

\* /^chrome-extension:\/\/.+$/.test(origin): the prefix, then one or more
\* characters none of which ends a line
TestChromeExtension(origin) ==
    /\ MatchAt(origin, ChromeExtensionPrefix, 1)
    /\ Len(origin) > Len(ChromeExtensionPrefix)
    /\ \A i \in (Len(ChromeExtensionPrefix) + 1)..Len(origin) : origin[i] # "\n"

\* /^https:\/\/linear\.app$/.test(origin)
TestLinearApp(origin) == origin = LinearOrigin

\* isOriginAllowed: null and "" are refused before the patterns are tried
isOriginAllowed(origin) ==
    IF origin.t = "null" \/ origin.v = <<>> THEN FALSE
    ELSE TestChromeExtension(origin.v) \/ TestLinearApp(origin.v)

\* the headers of a response the model follows: Access-Control-Allow-Origin
\* (undefined when not set) and whether the other three CORS headers are set
NoHeaders == [allowOrigin |-> JUndef, allowMethods |-> FALSE]

\* getCorsHeaders with the origin echoed whenever there is one
getCorsHeaders_EchoAny(origin) ==
    IF origin.t # "null" /\ origin.v # <<>>
    THEN [allowOrigin |-> origin, allowMethods |-> TRUE]
    ELSE NoHeaders

\* getCorsHeaders
getCorsHeaders(origin) ==
    IF origin.t # "null" /\ origin.v # <<>> /\ isOriginAllowed(origin)
    THEN [allowOrigin |-> origin, allowMethods |-> TRUE]
    ELSE NoHeaders

\* new Headers(response.headers) with every entry of corsHeaders set on it
SetHeaders(headers, corsHeaders) ==
    IF corsHeaders = NoHeaders THEN headers ELSE corsHeaders

\* the middleware refusing a request whose origin is not allowed
corsMiddleware_Blocks(request, next) ==
    LET corsHeaders == getCorsHeaders(request.origin)
    IN  IF request.method = "OPTIONS"
        THEN [status |-> 204, headers |-> corsHeaders, body |-> "null",
              ran |-> FALSE]
        ELSE IF ~isOriginAllowed(request.origin)
        THEN [status |-> 403, headers |-> corsHeaders, body |-> "null",
              ran |-> FALSE]
        ELSE [status |-> next.status,
              headers |-> SetHeaders(next.headers, corsHeaders),
              body |-> next.body, ran |-> next.ran]

\* corsMiddleware: 204 for OPTIONS without calling next, otherwise the
\* response of next (its status and body) with the CORS headers added;
\* ran: a route handler was run for the request
corsMiddleware(request, next) ==
    LET corsHeaders == getCorsHeaders(request.origin)
    IN  IF request.method = "OPTIONS"
        THEN [status |-> 204, headers |-> corsHeaders, body |-> "null",
              ran |-> FALSE]
        ELSE [status |-> next.status,
              headers |-> SetHeaders(next.headers, corsHeaders),
              body |-> next.body, ran |-> next.ran]

\* the routes index.ts registers
Routes ==
    {<<"GET", "/health">>, <<"POST", "/worktree/create">>,
     <<"POST", "/worktree/open">>, <<"POST", "/terminal/test">>}

\* Router.handle: finalHandler answers 404 when no route matches, otherwise
\* what the route handler answers (status handlerStatus); the middleware is
\* wrapped around it
RouterHandle(request, handlerStatus) ==
    LET finalHandler ==
            IF <<request.method, request.path>> \notin Routes
            THEN [status |-> 404, headers |-> NoHeaders, body |-> "not_found",
                  ran |-> FALSE]
            ELSE [status |-> handlerStatus, headers |-> NoHeaders,
                  body |-> "handler", ran |-> TRUE]
    IN  corsMiddleware(request, finalHandler)

\* the Origin header of a request: none, empty, or a string
Origins ==
    {JNull, JStr(<<>>),
     JStr(ChromeExtensionPrefix),
     JStr(ChromeExtensionPrefix \o <<"a">>),
     JStr(ChromeExtensionPrefix \o <<"a", "b", "/">>),
     JStr(<<"x">> \o ChromeExtensionPrefix \o <<"a">>),
     JStr(LinearOrigin),
     JStr(LinearOrigin \o <<"/">>),
     JStr(LinearOrigin \o <<".", "e">>),
     JStr(<<"e">> \o LinearOrigin),
     JStr(Tail(LinearOrigin)),
     JStr(<<"n", "u", "l", "l">>)}

Methods == {"GET", "POST", "OPTIONS"}

Paths == {"/health", "/worktree/create", "/worktree/open", "/terminal/test",
          "/nope"}

\* the statuses the route handlers answer with
HandlerStatuses == {200, 400, 409, 500}

\* the router is given a request
CallRouterHandle ==
    /\ px.fn = "none"
    /\ px.arg.for = "handle"
    /\ px' = [px EXCEPT !.fn = "handle",
                        !.out = RouterHandle(px.arg.request, px.arg.handlerStatus)]
    /\ UNCHANGED <<srvVars, dlg, store, dmn>>

(***************************************************************************)
(* lib/branch-name.ts of the extension                                     *)
(***************************************************************************)
MAX_BRANCH_LENGTH == 100

\* the string of n characters c
Rep(c, n) == [i \in 1..n |-> c]

\* String.prototype.toLowerCase on the characters of the model
toLowerCase(s) == [i \in 1..Len(s) |-> IF s[i] = "B" THEN "b" ELSE s[i]]

\* [a-z0-9] on the characters of the model
IsSlugChar(c) == c \in {"a", "b", "3"}

\* a position of a string that holds a character (not one taken out)
IsCharacter(c) == c # ""

\* .replace(/[^a-z0-9]+/g, "-"): every run of other characters becomes "-"
ReplaceNonAlnum(s) ==
    LET marked == [i \in 1..Len(s) |->
                    IF IsSlugChar(s[i]) THEN s[i]
                    ELSE IF i = 1 \/ IsSlugChar(s[i - 1]) THEN "-"
                    ELSE ""]
    IN  SelectSeq(marked, IsCharacter)

\* .replace(/-+/g, "-"): every run of hyphens becomes one
CollapseHyphens(s) ==
    LET marked == [i \in 1..Len(s) |->
                    IF s[i] = "-" /\ i > 1 /\ s[i - 1] = "-" THEN "" ELSE s[i]]
    IN  SelectSeq(marked, IsCharacter)

\* .replace(/-$/, ""): one hyphen at the end is removed
StripTrailingHyphen(s) ==
    IF Len(s) > 0 /\ s[Len(s)] = "-" THEN SubSeq(s, 1, Len(s) - 1) ELSE s

\* .replace(/^-|-$/g, ""): one hyphen at the start and one at the end
StripHyphenEnds(s) ==
    LET t == IF Len(s) > 0 /\ s[1] = "-" THEN Tail(s) ELSE s
    IN  StripTrailingHyphen(t)

slugifyTitle(title) ==
    StripHyphenEnds(CollapseHyphens(ReplaceNonAlnum(toLowerCase(title))))

\* s.slice(0, end): a negative end counts from the end of the string
Slice0(s, end) ==
    LET e == IF end < 0 THEN Len(s) + end ELSE end
        n == IF e < 0 THEN 0 ELSE IF e > Len(s) THEN Len(s) ELSE e
    IN  SubSeq(s, 1, n)

\* the truncation without the character for the hyphen after the issue id
generateBranchName_OffByOne(issueId, title) ==
    LET slugifiedTitle == slugifyTitle(title)
        fullBranchName == issueId \o <<"-">> \o slugifiedTitle
        availableLength == MAX_BRANCH_LENGTH - Len(issueId)
        truncatedTitle == StripTrailingHyphen(Slice0(slugifiedTitle, availableLength))
    IN  IF slugifiedTitle = <<>> THEN issueId
        ELSE IF Len(fullBranchName) <= MAX_BRANCH_LENGTH THEN fullBranchName
        ELSE issueId \o <<"-">> \o truncatedTitle

generateBranchName(issueId, title) ==
    LET slugifiedTitle == slugifyTitle(title)
        fullBranchName == issueId \o <<"-">> \o slugifiedTitle
        availableLength == MAX_BRANCH_LENGTH - Len(issueId) - 1
        truncatedTitle == StripTrailingHyphen(Slice0(slugifiedTitle, availableLength))
    IN  IF slugifiedTitle = <<>> THEN issueId
        ELSE IF Len(fullBranchName) <= MAX_BRANCH_LENGTH THEN fullBranchName
        ELSE issueId \o <<"-">> \o truncatedTitle

\* issue ids: a usual one, one ending in a hyphen, and long ones around
\* MAX_BRANCH_LENGTH
BranchIssueIds ==
    {<<"Q", "-", "3">>, <<"Q", "-">>}
    \cup {Rep("X", n) : n \in {18, 97, 98, 99, 100, 101}}

\* titles: two words of chosen lengths around what is left after the issue
\* id, with some text before, between and after them
TitleGaps == {<<>>, <<" ">>, <<"-">>, <<"!", " ">>, <<"B">>}

BranchTitles ==
    {lead \o Rep("a", i) \o gap \o Rep("b", j) \o trail :
        lead \in {<<>>, <<" ">>}, i \in {0, 1, 2, 94, 95, 96, 97},
        gap \in TitleGaps, j \in {0, 1, 3}, trail \in {<<>>, <<"!">>}}

\* generateBranchName is given an issue id and a title
CallGenerateBranchName ==
    /\ px.fn = "none"
    /\ px.arg.for = "generateBranchName"
    /\ px' = [px EXCEPT !.fn = "generateBranchName",
                        !.out = generateBranchName(px.arg.issueId, px.arg.title)]
    /\ UNCHANGED <<srvVars, dlg, store, dmn>>

(***************************************************************************)
(* services/git.ts: the output of git worktree list --porcelain            *)
(***************************************************************************)
WorktreePrefix == <<"w", "o", "r", "k", "t", "r", "e", "e", " ">>
HeadPrefix == <<"H", "E", "A", "D", " ">>
BranchPrefix == <<"b", "r", "a", "n", "c", "h", " ">>
RefsHeads == <<"r", "e", "f", "s", "/", "h", "e", "a", "d", "s", "/">>

\* String.prototype.split("\n")
RECURSIVE SplitLines(_)
SplitLines(s) ==
    LET breaks == {i \in 1..Len(s) : s[i] = "\n"}
    IN  IF breaks = {} THEN <<s>>
        ELSE LET i == CHOOSE b \in breaks : \A c \in breaks : b <= c
             IN  <<SubSeq(s, 1, i - 1)>> \o SplitLines(Drop(s, i))

\* String.prototype.startsWith
startsWith(s, p) == MatchAt(s, p, 1)

\* s.replace(pat, "") with a string pattern: the first occurrence is removed
RemoveFirst(s, pat) ==
    LET at == {i \in 1..Len(s) : MatchAt(s, pat, i)}
    IN  IF at = {} THEN s
        ELSE LET i == CHOOSE a \in at : \A b \in at : a <= b
             IN  SubSeq(s, 1, i - 1) \o Drop(s, i + Len(pat) - 1)

\* String.prototype.trim on the white space of the model
RECURSIVE trim(_)
trim(s) ==
    IF s = <<>> THEN s
    ELSE IF s[1] \in {" ", "\n"} THEN trim(Tail(s))
    ELSE IF s[Len(s)] \in {" ", "\n"} THEN trim(SubSeq(s, 1, Len(s) - 1))
    ELSE s

\* current = {}
NoEntry == [path |-> JUndef, head |-> JUndef, branch |-> JUndef]

\* if (current.path): the path is set and is not the empty string
HasPath(current) == current.path.t = "string" /\ current.path.v # <<>>

\* one turn of the loop over the lines
ParseLine(st, line) ==
    IF startsWith(line, WorktreePrefix)
    THEN [worktrees |-> IF HasPath(st.current)
                        THEN Append(st.worktrees, st.current)
                        ELSE st.worktrees,
          current |-> [NoEntry EXCEPT !.path = JStr(Drop(line, 9))]]
    ELSE IF startsWith(line, HeadPrefix)
    THEN [st EXCEPT !.current.head = JStr(Drop(line, 5))]
    ELSE IF startsWith(line, BranchPrefix)
    THEN [st EXCEPT !.current.branch = JStr(RemoveFirst(Drop(line, 7), RefsHeads))]
    ELSE IF line = <<>> /\ HasPath(st.current)
    THEN [worktrees |-> Append(st.worktrees, st.current), current |-> NoEntry]
    ELSE st

RECURSIVE ParseLines(_, _)
ParseLines(st, lines) ==
    IF lines = <<>> THEN st
    ELSE ParseLines(ParseLine(st, Head(lines)), Tail(lines))

\* the parser without the push after the loop
parseWorktreeListOutput_NoFinalPush(output) ==
    ParseLines([worktrees |-> <<>>, current |-> NoEntry], SplitLines(output)).worktrees

parseWorktreeListOutput(output) ==
    LET st == ParseLines([worktrees |-> <<>>, current |-> NoEntry],
                         SplitLines(output))
    IN  IF HasPath(st.current) THEN Append(st.worktrees, st.current)
        ELSE st.worktrees

\* execGit: a non-zero exit code throws, otherwise stdout.trim() is returned;
\* listWorktrees parses what execGit returns
listWorktrees(stdout, stderr, exitCode) ==
    IF exitCode # 0 THEN [threw |-> GitError("Git command failed: git worktree list --porcelain",
                                           <<>>, trim(stderr)), worktrees |-> <<>>]
    ELSE [threw |-> NoMsg, worktrees |-> parseWorktreeListOutput(trim(stdout))]

\* what git prints for one worktree: a checked out branch, a detached HEAD
\* or a bare repository (which has no HEAD line)
WtEntryPaths == {<<"/", "r">>, <<"/", "w", " ", "x">>}
WtEntryHeads == {<<"a", "1">>, <<"b">>}
WtEntryRefs == {RefsHeads \o <<"m">>, RefsHeads \o <<"f", "/", "x">>}
WtEntries ==
    {[path |-> p, head |-> h, ref |-> r] :
        p \in WtEntryPaths, h \in WtEntryHeads, r \in WtEntryRefs \cup {<<>>}}
    \cup {[path |-> p, head |-> <<>>, ref |-> <<>>] : p \in WtEntryPaths}

MaxEntries == 2

EntryText(e) ==
    WorktreePrefix \o e.path \o <<"\n">>
    \o (IF e.head = <<>> THEN <<"b", "a", "r", "e">>
        ELSE HeadPrefix \o e.head \o <<"\n">>
             \o (IF e.ref = <<>>
                 THEN <<"d", "e", "t", "a", "c", "h", "e", "d">>
                 ELSE BranchPrefix \o e.ref))

\* the entries, a blank line between two of them, and what follows the last
RECURSIVE Porcelain(_, _)
Porcelain(entries, end) ==
    IF entries = <<>> THEN <<>>
    ELSE IF Len(entries) = 1 THEN EntryText(entries[1]) \o end
    ELSE EntryText(entries[1]) \o <<"\n", "\n">> \o Porcelain(Tail(entries), end)

\* nothing, the end of the last line, or that and a blank line (what git
\* prints)
PorcelainEnds == {<<>>, <<"\n">>, <<"\n", "\n">>}

(***************************************************************************)
(* services/git.ts: the probes, called on their own                        *)
(***************************************************************************)
\* execGitQuiet: whether the exit code of git is 0
execGitQuiet(exitCode) == exitCode = 0

\* the exit code of git -C repoPath rev-parse --git-dir
GitRevParseExit(repoPath) == IF GitRevParseOk(repoPath) THEN 0 ELSE 128

\* the exit code of git -C repoPath show-ref --verify --quiet refs/heads/b
GitShowRefExit(repoPath, b) ==
    IF GitShowRefOk(repoPath, b) THEN 0
    ELSE IF GitRevParseOk(repoPath) THEN 1
    ELSE 128

Returned(value) == [value |-> value, threw |-> NoError]
Threw(error) == [value |-> "none", threw |-> error]

\* the probes with a non-zero exit code of git raised as a GitError
ProbeCall_Raises(probe, path, branchName) ==
    IF probe = "checkBranchExists"
    THEN IF GitShowRefExit(path, branchName) # 0
         THEN Threw(GitError("Git command failed: git show-ref", <<>>, ""))
         ELSE Returned([exists |-> TRUE, directory |-> JUndef])
    ELSE IF probe = "checkWorktreeExists"
    THEN Returned([exists |-> checkWorktreeExists(path),
                   directory |-> IF checkWorktreeExists(path) THEN JStr(path)
                                 ELSE JUndef])
    ELSE IF ~exists(path)
    THEN Threw(ValidationError("Repository path does not exist: ", path))
    ELSE IF GitRevParseExit(path) # 0
    THEN Threw(GitError("Git command failed: git rev-parse", <<>>, ""))
    ELSE Returned("void")

\* checkBranchExists(path, branchName), checkWorktreeExists(path) and
\* validateRepoPath(path): what the call returns or throws
ProbeCall(probe, path, branchName) ==
    IF probe = "checkBranchExists"
    THEN Returned([exists |-> execGitQuiet(GitShowRefExit(path, branchName)),
                   directory |-> JUndef])
    ELSE IF probe = "checkWorktreeExists"
    THEN Returned([exists |-> checkWorktreeExists(path),
                   directory |-> IF checkWorktreeExists(path) THEN JStr(path)
                                 ELSE JUndef])
    ELSE IF ~exists(path)
    THEN Threw(ValidationError("Repository path does not exist: ", path))
    ELSE IF ~execGitQuiet(GitRevParseExit(path))
    THEN Threw(ValidationError("Not a git repository: ", path))
    ELSE Returned("void")

Probes == {"checkBranchExists", "checkWorktreeExists", "validateRepoPath"}
ProbePaths == {RepoMain, PlainDir, NoSuchPath, TargetDir}
ProbeBranches == {MainBranch, NewBranch, MissingBranch}

\* a probe is called
CallProbe ==
    /\ px.fn = "none"
    /\ px.arg.for = "probe"
    /\ px' = [px EXCEPT !.fn = "probe",
                        !.out = <<ProbeCall(px.arg.probe, px.arg.path,
                                            px.arg.branchName)>>]
    /\ UNCHANGED <<srvVars, dlg, store, dmn>>

\* and called again with the same arguments
CallProbeAgain ==
    /\ px.fn = "probe"
    /\ Len(px.out) = 1
    /\ px' = [px EXCEPT !.out = Append(@, ProbeCall(px.arg.probe, px.arg.path,
                                                    px.arg.branchName))]
    /\ UNCHANGED <<srvVars, dlg, store, dmn>>

\* worktree roots, repository paths and branch names, with and without
\* slashes at their ends
PathRoots == {<<"/", "w">>, <<"/", "w", "/">>, <<"w">>, <<"/">>, <<>>}
PathRepos == {<<"/", "r">>, <<"/", "a", "/", "r">>, <<"/", "a", "/", "r", "/">>,
              <<"r">>, <<"a", "/", "/", "r", "/", "/">>, <<"/">>, <<>>}
PathBranches == {<<"f">>, <<"f", "/", "x">>, <<"/", "f">>, <<"f", "/">>, <<>>}

CallBuildWorktreePath ==
    /\ px.fn = "none"
    /\ px.arg.for = "buildWorktreePath"
    /\ px' = [px EXCEPT !.fn = "buildWorktreePath",
                        !.out = buildWorktreePath(px.arg.worktreeRoot,
                                                  px.arg.repoPath,
                                                  px.arg.branchName)]
    /\ UNCHANGED <<srvVars, dlg, store, dmn>>

CallParseWorktreeListOutput ==
    /\ px.fn = "none"
    /\ px.arg.for = "parseWorktreeListOutput"
    /\ px' = [px EXCEPT !.fn = "parseWorktreeListOutput",
                        !.out = parseWorktreeListOutput(px.arg.output)]
    /\ UNCHANGED <<srvVars, dlg, store, dmn>>

CallListWorktrees ==
    /\ px.fn = "none"
    /\ px.arg.for = "listWorktrees"
    /\ px' = [px EXCEPT !.fn = "listWorktrees",
                        !.out = listWorktrees(px.arg.stdout, px.arg.stderr,
                                              px.arg.exitCode)]
    /\ UNCHANGED <<srvVars, dlg, store, dmn>>

\* the probes are called on every state of the repository and of the target
\* directory
InitProbe ==
    /\ fs \in [MutableDirs -> DirStates]
    /\ branches \in {{MainBranch}, {MainBranch, NewBranch}}
    /\ extSteps = 0
    /\ rq = [r \in Reqs |-> IdleRq]
    /\ proc = [r \in Reqs |-> NoProc]
    /\ crashed = FALSE
    /\ dlg = NoDialog
    /\ store = NoStore
    /\ dmn = NoDaemon
    /\ \E pr \in Probes, p \in ProbePaths, b \in ProbeBranches :
        /\ pr # "checkBranchExists" => b = MainBranch
        /\ px = [NoCall EXCEPT
                  !.arg = [for |-> "probe", probe |-> pr, path |-> p,
                           branchName |-> IF pr = "checkBranchExists" THEN b
                                          ELSE <<>>]]

InitFnCalls ==
    /\ InitSrv
    /\ dlg = NoDialog
    /\ store = NoStore
    /\ dmn = NoDaemon
    /\ \/ \E c \in Templates, t \in TokenSets :
            px = [NoCall EXCEPT !.arg = [for |-> "replaceTokens",
                                        command |-> c, tokens |-> t]]
       \/ \E c \in Commands :
            px = [NoCall EXCEPT !.arg = [for |-> "parseCommand", command |-> c]]
       \/ \E m \in Methods, p \in Paths, o \in Origins, st \in HandlerStatuses :
            px = [NoCall EXCEPT
                    !.arg = [for |-> "handle",
                             request |-> [method |-> m, path |-> p, origin |-> o],
                             handlerStatus |-> st]]
       \/ \E id \in BranchIssueIds, t \in BranchTitles :
            px = [NoCall EXCEPT !.arg = [for |-> "generateBranchName",
                                        issueId |-> id, title |-> t]]
       \/ \E w \in PathRoots, rp \in PathRepos, b \in PathBranches :
            px = [NoCall EXCEPT !.arg = [for |-> "buildWorktreePath",
                                        worktreeRoot |-> w, repoPath |-> rp,
                                        branchName |-> b]]
       \/ \E es \in SeqsUpTo(WtEntries, MaxEntries), end \in PorcelainEnds :
            px = [NoCall EXCEPT !.arg = [for |-> "parseWorktreeListOutput",
                                        entries |-> es,
                                        output |-> Porcelain(es, end)]]
       \/ \E es \in SeqsUpTo(WtEntries, MaxEntries), code \in {0, 128} :
            px = [NoCall EXCEPT
                    !.arg = [for |-> "listWorktrees",
                             entries |-> es,
                             stdout |-> IF code = 0
                                        THEN Porcelain(es, <<"\n", "\n">>)
                                        ELSE <<>>,
                             stderr |-> IF code = 0 THEN <<>>
                                        ELSE <<"f", "a", "t", "a", "l", "\n">>,
                             exitCode |-> code]]

InitFn == InitFnCalls \/ InitProbe

NextFn ==
    \/ CallReplaceTokens
    \/ CallParseCommand
    \/ CallRouterHandle
    \/ CallGenerateBranchName
    \/ CallParseWorktreeListOutput
    \/ CallBuildWorktreePath
    \/ CallProbe
    \/ CallProbeAgain
    \/ CallListWorktrees

SpecFn == InitFn /\ [][NextFn]_vars

(***************************************************************************)
(* The worktree dialog of the extension and its API client                 *)
(***************************************************************************)
\* dlg.type, dlg.directory and dlg.message are the DialogState; dlg.form is
\* formData, dlg.worktreeRoot the configured root; dlg.call is the request
\* in flight, dlg.body the last body sent, dlg.answer the last response
\* received

\* a field of a parsed JSON body: undefined when the body does not have it
JsField(v) == IF v = <<>> THEN JUndef ELSE JStr(v)

\* what the service can answer to a create request with this body, depending
\* on the repository and the filesystem it finds
CreateAnswers(body) ==
    IF validateCreateRequest(body) # NoError
    THEN {HandlerCatch(validateCreateRequest(body))}
    ELSE LET rp == body.f["repoPath"].v
             bn == body.f["branchName"].v
             dir == buildWorktreePath(body.f["worktreeRoot"].v, rp, bn)
         IN  {HandlerCatch(ValidationError("Repository path does not exist: ", rp)),
              HandlerCatch(WorktreeExistsError(dir)),
              HandlerCatch(BranchExistsError(bn)),
              HandlerCatch(GitError("Git command failed: git worktree add -b ",
                                    bn, "fatal: path already exists")),
              HandlerCatch(PlainError("Error", "spawn failed")),
              Response(200, "true", "absent", NoMsg, dir)}

\* what the service can answer to an open request with this body
OpenAnswers(body) ==
    IF validateOpenRequest(body) # NoError
    THEN {HandlerCatch(validateOpenRequest(body))}
    ELSE {HandlerCatch(ValidationError("Directory does not exist", <<>>)),
          HandlerCatch(ValidationError("Directory is not a valid git worktree", <<>>)),
          HandlerCatch(PlainError("Error", "spawn failed")),
          Response(200, "true", "absent", NoMsg, <<>>)}

\* the calls of getConfig that may be unsettled at a time
MaxLoads == 2

\* App.openDialog: the button on the issue page; the state becomes "form"
\* and the effect of the dialog calls getConfig
openDialog ==
    /\ dlg.type = "closed"
    /\ dlg.loads < MaxLoads
    /\ dlg' = [dlg EXCEPT !.type = "form", !.directory = JUndef,
                          !.message = NoMsg, !.loads = @ + 1,
                          !.lastEvent = "openDialog"]
    /\ UNCHANGED <<srvVars, px, store, dmn>>

\* getConfig().then: the configuration is kept and the form is filled from
\* it (the repository of the mapping if there is one, the default branch
\* name)
getConfigResolved ==
    /\ dlg.loads > 0
    /\ \E root \in {<<>>, WtRoot}, rp \in {<<>>, RepoMain} :
        dlg' = [dlg EXCEPT !.loads = @ - 1, !.config = TRUE,
                           !.worktreeRoot = root,
                           !.form = [repoPath |-> rp, branchName |-> NewBranch],
                           !.lastEvent = "getConfigResolved"]
    /\ UNCHANGED <<srvVars, px, store, dmn>>

\* getConfig().catch: onStateChange({ type: "error", ... }) whatever the
\* state of the dialog is
getConfigRejected ==
    /\ dlg.loads > 0
    /\ dlg' = [dlg EXCEPT !.loads = @ - 1, !.type = "error",
                          !.directory = JUndef,
                          !.message = Msg("Failed to load configuration", <<>>),
                          !.lastEvent = "getConfigRejected"]
    /\ UNCHANGED <<srvVars, px, store, dmn>>

\* handleInputChange: the user edits the form
handleInputChange ==
    /\ dlg.type = "form"
    /\ \E rp \in {<<>>, RepoMain, NoSuchPath}, bn \in {<<>>, NewBranch, MainBranch} :
        /\ dlg.form # [repoPath |-> rp, branchName |-> bn]
        /\ dlg' = [dlg EXCEPT !.form = [repoPath |-> rp, branchName |-> bn],
                              !.lastEvent = "handleInputChange"]
    /\ UNCHANGED <<srvVars, px, store, dmn>>

\* handleSubmit up to the await of createWorktree: nothing without a
\* configuration; the form is validated and the create request is sent (one
\* request of the dialog is followed at a time)
handleSubmit ==
    /\ dlg.type = "form"
    /\ dlg.config
    /\ dlg.call = "none"
    /\ IF dlg.form.repoPath = <<>>
       THEN dlg' = [dlg EXCEPT !.type = "error", !.lastEvent = "handleSubmit",
                               !.message = Msg("Please select a repository", <<>>)]
       ELSE IF dlg.form.branchName = <<>>
       THEN dlg' = [dlg EXCEPT !.type = "error", !.lastEvent = "handleSubmit",
                               !.message = Msg("Branch name is required", <<>>)]
       ELSE IF dlg.worktreeRoot = <<>>
       THEN dlg' = [dlg EXCEPT !.type = "error", !.lastEvent = "handleSubmit",
                               !.message = Msg("Worktree root directory not configured", <<>>)]
       ELSE dlg' = [dlg EXCEPT
                !.type = "loading",
                !.lastEvent = "handleSubmit",
                !.call = "create",
                !.body = Obj([CreateDefault EXCEPT
                                !["repoPath"] = JStr(dlg.form.repoPath),
                                !["branchName"] = JStr(dlg.form.branchName),
                                !["worktreeRoot"] = JStr(dlg.worktreeRoot)])]
    /\ UNCHANGED <<srvVars, px, store, dmn>>

\* createWorktree of the API client gets the response, and the rest of
\* handleSubmit: every 409 is thrown as WorktreeExistsError(message,
\* directory) and shown as a conflict, any other error status as ApiError,
\* a failed fetch as NetworkError; onStateChange is called whatever the
\* state of the dialog has become in the meantime
createWorktreeAnswered ==
    /\ dlg.call = "create"
    /\ \/ \E response \in CreateAnswers(dlg.body) :
            dlg' = [dlg EXCEPT
                !.call = "none",
                !.lastEvent = "createWorktreeAnswered",
                !.answer = response,
                !.type = IF response.status = 409 THEN "conflict"
                         ELSE IF response.status # 200 THEN "error"
                         ELSE "success",
                !.directory = IF response.status \in {409, 200}
                              THEN JsField(response.directory) ELSE JUndef,
                !.message = IF response.status \in {409, 200} THEN NoMsg
                            ELSE response.message]
       \/ dlg' = [dlg EXCEPT
                !.call = "none",
                !.lastEvent = "createWorktreeAnswered",
                !.type = "error",
                !.message = Msg("Unable to connect to server", <<>>)]
    /\ UNCHANGED <<srvVars, px, store, dmn>>

\* handleOpenExisting up to the await of openWorktree: JSON.stringify leaves
\* out a directory that is undefined
handleOpenExisting ==
    /\ dlg.type = "conflict"
    /\ dlg.config
    /\ dlg.call = "none"
    /\ dlg' = [dlg EXCEPT
            !.type = "loading",
            !.lastEvent = "handleOpenExisting",
            !.call = "open",
            !.body = Obj([OpenDefault EXCEPT
                            !["directory"] = dlg.directory,
                            !["branchName"] = JStr(dlg.form.branchName)])]
    /\ UNCHANGED <<srvVars, px, store, dmn>>

\* openWorktree of the API client gets the response, and the rest of
\* handleOpenExisting
openWorktreeAnswered ==
    /\ dlg.call = "open"
    /\ \/ \E response \in OpenAnswers(dlg.body) :
            dlg' = [dlg EXCEPT
                !.call = "none",
                !.lastEvent = "openWorktreeAnswered",
                !.answer = response,
                !.type = IF response.status = 200 THEN "success" ELSE "error",
                !.message = IF response.status = 200 THEN NoMsg
                            ELSE response.message]
       \/ dlg' = [dlg EXCEPT
                !.call = "none",
                !.lastEvent = "openWorktreeAnswered",
                !.type = "error",
                !.message = Msg("Unable to connect to server", <<>>)]
    /\ UNCHANGED <<srvVars, px, store, dmn>>

\* App.closeDialog: Cancel, Dismiss, Escape, the backdrop, or the timer of
\* the success state; the state becomes "closed" and the effect of the
\* dialog calls getConfig
closeDialog ==
    /\ dlg.type \notin {"closed", "loading"}
    /\ dlg.loads < MaxLoads
    /\ dlg' = [dlg EXCEPT !.type = "closed", !.directory = JUndef,
                          !.message = NoMsg, !.loads = @ + 1,
                          !.lastEvent = "closeDialog"]
    /\ UNCHANGED <<srvVars, px, store, dmn>>

\* the dialog is mounted closed, and its effect calls getConfig
InitDialog ==
    /\ InitSrv
    /\ px = NoCall
    /\ dlg = [NoDialog EXCEPT !.loads = 1]
    /\ store = NoStore
    /\ dmn = NoDaemon

NextDialog ==
    \/ openDialog
    \/ getConfigResolved
    \/ getConfigRejected
    \/ handleInputChange
    \/ handleSubmit
    \/ createWorktreeAnswered
    \/ handleOpenExisting
    \/ openWorktreeAnswered
    \/ closeDialog

SpecDialog == InitDialog /\ [][NextDialog]_vars

(***************************************************************************)
(* lib/storage.ts of the extension: addProjectMapping                      *)
(***************************************************************************)
Workspaces == {"w1", "w2"}

\* the mappings stored before the calls: project R in some workspaces
EarlierMappings == {<<w, "R">> : w \in Workspaces}

\* the configuration object config of the call c: what chrome.storage.sync
\* returned (a copy of its own) or the DEFAULT_CONFIG object of its context
ConfigOf(c) ==
    IF store.call[c].ref = "default" THEN store.defaults[store.call[c].ctx]
    ELSE store.call[c].copy

\* getConfig: await chrome.storage.sync.get(STORAGE_KEY); the stored value,
\* or DEFAULT_CONFIG if there is none
getConfig(c) ==
    /\ store.call[c].pc = "getConfig"
    /\ store' = [store EXCEPT
            !.call[c].pc = "saveConfig",
            !.call[c].ref = IF store.has THEN "copy" ELSE "default",
            !.call[c].copy = IF store.has THEN store.maps ELSE {}]
    /\ UNCHANGED <<srvVars, px, dlg, dmn>>

\* the rest of addProjectMapping: the mapping is set in the configuration
\* object and saveConfig writes the whole object
saveConfig(c) ==
    /\ store.call[c].pc = "saveConfig"
    /\ LET mapping == <<store.call[c].workspace, store.call[c].projectCode>>
           config == ConfigOf(c) \cup {mapping}
       IN  store' = [store EXCEPT
                !.has = TRUE,
                !.maps = config,
                !.defaults[store.call[c].ctx] =
                    IF store.call[c].ref = "default" THEN config ELSE @,
                !.call[c].copy =
                    IF store.call[c].ref = "copy" THEN config ELSE @,
                !.call[c].pc = "done"]
    /\ UNCHANGED <<srvVars, px, dlg, dmn>>

\* two calls of addProjectMapping for the project codes P and Q are made,
\* in one tab or in two, with nothing stored or with some mappings stored
InitStorage ==
    /\ InitSrv
    /\ px = NoCall
    /\ dlg = NoDialog
    /\ dmn = NoDaemon
    /\ \E has \in BOOLEAN, earlier \in SUBSET EarlierMappings,
          wa \in Workspaces, wb \in Workspaces, xb \in Contexts :
        /\ ~has => earlier = {}
        /\ store = [NoStore EXCEPT
                !.has = has, !.maps = earlier, !.before = earlier,
                !.call = [c \in Callers |->
                    [pc |-> "getConfig",
                     ctx |-> IF c = "a" THEN "tab1" ELSE xb,
                     workspace |-> IF c = "a" THEN wa ELSE wb,
                     projectCode |-> IF c = "a" THEN "P" ELSE "Q",
                     ref |-> "none", copy |-> {}]]]

NextStorage ==
    \/ \E c \in Callers : getConfig(c)
    \/ \E c \in Callers : saveConfig(c)

SpecStorage == InitStorage /\ [][NextStorage]_vars

(***************************************************************************)
(* scripts/daemon.sh: stop                                                 *)
(***************************************************************************)
\* the seconds stop waits for the server to exit
MaxWaitSeconds == 10

\* is_running: the PID file is there and ps -p finds the process
is_running == dmn.pidFile /\ dmn.server = "running"

\* a command of the script ends with this status: with set -e in force a
\* status other than 0 ends the script with it
Status(status, next) ==
    IF status # 0 /\ dmn.errexit
    THEN [dmn EXCEPT !.pc = "exited", !.exitCode = status]
    ELSE [dmn EXCEPT !.pc = next]

\* if ! is_running; then ... rm -f "$PID_FILE"; exit 0
StopIsRunning ==
    /\ dmn.pc = "stop"
    /\ dmn' = IF ~is_running
              THEN [dmn EXCEPT !.pc = "exited", !.pidFile = FALSE, !.exitCode = 0]
              ELSE [dmn EXCEPT !.pc = "kill"]
    /\ UNCHANGED <<srvVars, px, dlg, store>>

\* kill "$pid": SIGTERM; kill fails when there is no such process
StopKill ==
    /\ dmn.pc = "kill"
    /\ dmn' = IF dmn.server # "running" THEN Status(1, "while")
              ELSE [Status(0, "while") EXCEPT !.sigterm = TRUE]
    /\ UNCHANGED <<srvVars, px, dlg, store>>

\* while is_running && [ $count -lt 10 ]
StopWhile ==
    /\ dmn.pc = "while"
    /\ dmn' = IF is_running /\ dmn.count < MaxWaitSeconds
              THEN [dmn EXCEPT !.pc = "sleep"]
              ELSE [dmn EXCEPT !.pc = "if"]
    /\ UNCHANGED <<srvVars, px, dlg, store>>

\* sleep 1; ((count++)): the status of (( )) is 1 when the value of the
\* expression, the count before the increment, is 0
StopSleep ==
    /\ dmn.pc = "sleep"
    /\ dmn' = [Status(IF dmn.count = 0 THEN 1 ELSE 0, "while")
                EXCEPT !.count = dmn.count + 1]
    /\ UNCHANGED <<srvVars, px, dlg, store>>

\* if is_running; then
StopIf ==
    /\ dmn.pc = "if"
    /\ dmn' = [dmn EXCEPT !.pc = IF is_running THEN "kill9" ELSE "rm"]
    /\ UNCHANGED <<srvVars, px, dlg, store>>

\* kill -9 "$pid"; sleep 1
StopKill9 ==
    /\ dmn.pc = "kill9"
    /\ dmn' = IF dmn.server # "running" THEN Status(1, "rm")
              ELSE [Status(0, "rm") EXCEPT !.sigkill = TRUE, !.server = "dead"]
    /\ UNCHANGED <<srvVars, px, dlg, store>>

\* rm -f "$PID_FILE"; the function returns
StopRemove ==
    /\ dmn.pc = "rm"
    /\ dmn' = [dmn EXCEPT !.pc = "exited", !.pidFile = FALSE, !.exitCode = 0]
    /\ UNCHANGED <<srvVars, px, dlg, store>>

\* the server process exits on the SIGTERM it has received, unless it
\* ignores the signal
ServerExit ==
    /\ dmn.server = "running"
    /\ dmn.sigterm
    /\ dmn.onTerm = "exits"
    /\ dmn' = [dmn EXCEPT !.server = "dead"]
    /\ UNCHANGED <<srvVars, px, dlg, store>>

\* stop is run by "daemon.sh stop", with set -e in force, or by "daemon.sh
\* restart" as stop || true, where set -e is not in force; the server is
\* running or not, the PID file is there or not
InitDaemon ==
    /\ InitSrv
    /\ px = NoCall
    /\ dlg = NoDialog
    /\ store = NoStore
    /\ \E cmd \in {"stop", "restart"}, srv \in {"running", "dead"},
          file \in BOOLEAN, on \in {"exits", "ignores"} :
        dmn = [NoDaemon EXCEPT
                !.pc = "stop", !.command = cmd, !.errexit = (cmd = "stop"),
                !.server = srv, !.pidFile = file, !.onTerm = on,
                !.wasRunning = (file /\ srv = "running")]

NextDaemon ==
    \/ StopIsRunning
    \/ StopKill
    \/ StopWhile
    \/ StopSleep
    \/ StopIf
    \/ StopKill9
    \/ StopRemove
    \/ ServerExit

SpecDaemon == InitDaemon /\ [][NextDaemon]_vars

(***************************************************************************)
(* Properties                                                              *)
(***************************************************************************)
IsCreate(r) == rq[r].kind = "create"
IsOpen(r) == rq[r].kind = "open"
IsLaunch(r) == rq[r].kind \in {"create", "open"}
Done(r) == rq[r].pc = "done"

\* the texts a response body carries
BodyTexts(resp) == {resp.error, resp.message.text}

\* C1: a create request that enters createWorktree while the target directory
\* is a linked worktree and the new branch exists is answered 409 "exists"
\* with the conflicting directory, never "branch_exists", and never runs
\* git worktree add.
C1_WorktreeExistsBeforeBranchExists ==
    \A r \in Reqs :
        (IsCreate(r) /\ rq[r].entry.wt /\ rq[r].entry.br) =>
            /\ rq[r].gitAddCalls = 0
            /\ rq[r].resp.error # "branch_exists"
            /\ Done(r) => /\ rq[r].resp.status = 409
                          /\ rq[r].resp.error = "exists"
                          /\ rq[r].resp.directory = rq[r].dir

C1_Witness ==
    \E r \in Reqs :
        /\ IsCreate(r) /\ Done(r) /\ rq[r].entry.wt /\ rq[r].entry.br
        /\ rq[r].resp.error = "exists"
        /\ rq[r].dir = TargetDir

\* C2: a create request that entered createWorktree when neither the target
\* directory nor the new branch existed, whose checks passed and whose git
\* worktree add then failed because the branch or the directory had meanwhile
\* been created, is answered with the matching conflict (409 "exists" or
\* "branch_exists"), not with 500 "git_error".
C2_RaceLoserGetsConflict ==
    \A r \in Reqs :
        (IsCreate(r) /\ Done(r) /\ rq[r].gitAddCalls = 1 /\ rq[r].gitExit # 0
         /\ rq[r].entry.ds = "absent" /\ ~rq[r].entry.br
         /\ rq[r].gitStderr \in {"fatal: a branch named already exists",
                                 "fatal: path already exists"}) =>
            /\ rq[r].resp.status = 409
            /\ rq[r].resp.error =
                 IF rq[r].gitStderr = "fatal: path already exists"
                 THEN "exists" ELSE "branch_exists"

\* C3: the step of createWorktree that finds the base branch missing, taken
\* when the new branch is absent and the target directory is no worktree,
\* answers 400 validation naming the base branch and changes nothing: git
\* worktree add is not run, and worktreeExists(directory) and
\* branchExists(repoPath, newBranch) are still false after the step.
C3_MissingBaseStep(r) ==
    (/\ rq[r].pc = "baseBranch" /\ rq'[r].pc # "baseBranch"
     /\ ~checkBranchExists(Field(r, "repoPath"), Field(r, "baseBranch"))
     /\ ~checkBranchExists(Field(r, "repoPath"), Field(r, "branchName"))
     /\ ~checkWorktreeExists(rq[r].dir)) =>
        /\ rq'[r].pc = "done"
        /\ rq'[r].resp.status = 400
        /\ rq'[r].resp.error = "validation"
        /\ rq'[r].resp.message = Msg("Base branch does not exist: ",
                                     Field(r, "baseBranch"))
        /\ rq'[r].gitAddCalls = 0
        /\ fs' = fs /\ branches' = branches
        /\ ~(checkWorktreeExists(rq[r].dir))'
        /\ ~(checkBranchExists(Field(r, "repoPath"), Field(r, "branchName")))'

C3_MissingBaseNoSideEffect ==
    /\ [](\A r \in Reqs :
            (rq[r].resp.message.text = "Base branch does not exist: ") =>
                rq[r].gitAddCalls = 0 /\ rq[r].spawned = 0)
    /\ [][\A r \in Reqs : C3_MissingBaseStep(r)]_vars

C3_Witness ==
    \E r \in Reqs :
        /\ IsCreate(r) /\ Done(r)
        /\ rq[r].resp.message = Msg("Base branch does not exist: ", MissingBranch)
        /\ ~checkWorktreeExists(rq[r].dir)
        /\ ~checkBranchExists(Field(r, "repoPath"), Field(r, "branchName"))

\* C4: after create has succeeded (createWorktree returned, and the request
\* was answered 200 with the directory), worktreeExists on the returned
\* directory is true and branchExists(repoPath, newBranch) is true.
C4_CreatedWorktreeAndBranchExist ==
    \A r \in Reqs :
        /\ (IsCreate(r) /\ Done(r) /\ rq[r].resp.status = 200) =>
                /\ rq[r].resp.directory = rq[r].dir
                /\ checkWorktreeExists(rq[r].resp.directory)
                /\ checkBranchExists(Field(r, "repoPath"), Field(r, "branchName"))
        /\ (IsCreate(r) /\ rq[r].gitExit = 0) =>
                /\ checkWorktreeExists(rq[r].dir)
                /\ checkBranchExists(Field(r, "repoPath"), Field(r, "branchName"))

C4_Witness ==
    \E r \in Reqs :
        /\ IsCreate(r) /\ Done(r) /\ rq[r].resp.status = 200
        /\ rq[r].resp.directory = TargetDir
        /\ rq[r].gitExit = 0

\* the directories the model knows
KnownDirs == MutableDirs \cup {RepoMain, PlainDir, NoSuchPath}

\* C5: checkWorktreeExists(directory) is true if and only if the directory
\* exists and its .git entry is a regular file; a directory whose .git is a
\* directory, or that has no .git, is no worktree.
C5_WorktreeIffGitFile ==
    \A d \in KnownDirs : checkWorktreeExists(d) <=> HasGitFile(d)

\* an open request whose body names a directory
NamesDirectory(r) ==
    /\ requestJson(rq[r].body) = NoError
    /\ rq[r].body.f["directory"].t = "string"
    /\ rq[r].body.f["directory"].v # <<>>

\* C6: an open request on a directory that does not exist, or that exists
\* without a .git entry, is answered 400 validation and spawns no process;
\* a process is spawned only after the existence check and the worktree
\* check have both passed.
C6_OpenRequiresWorktree ==
    \A r \in Reqs :
        IsOpen(r) =>
            /\ (rq[r].spawned > 0 \/ proc[r].state # "none") =>
                    rq[r].passed = {"exists", "worktree"}
            /\ (Done(r) /\ NamesDirectory(r)
                /\ DirState(rq[r].dir) \in {"absent", "empty", "plain"}) =>
                    /\ rq[r].resp.status = 400
                    /\ rq[r].resp.error = "validation"
                    /\ rq[r].spawned = 0
                    /\ proc[r].state = "none"

C6_Witness ==
    \E r \in Reqs :
        /\ IsOpen(r) /\ Done(r) /\ NamesDirectory(r)
        /\ rq[r].dir = TargetDir
        /\ DirState(rq[r].dir) = "plain"
        /\ "exists" \in rq[r].passed
        /\ rq[r].resp.status = 400

\* C7: when git worktree add exits non-zero, the request is answered 500
\* "git_error" and the body includes the stderr text captured from git.
C7_GitErrorCarriesStderr ==
    \A r \in Reqs :
        (IsCreate(r) /\ Done(r) /\ rq[r].gitAddCalls = 1 /\ rq[r].gitExit # 0) =>
            /\ rq[r].resp.status = 500
            /\ rq[r].resp.error = "git_error"
            /\ rq[r].gitStderr \in BodyTexts(rq[r].resp)

\* some required field of a create request is absent, no string or empty
SomeCreateFieldBad(b) ==
    \E i \in 1..Len(CreateRequiredFields) :
        LET v == b.f[CreateRequiredFields[i]]
        IN  v.t # "string" \/ v.v = <<>>

\* the repoPath of the body does not exist or is no git repository
RepoPathBad(b) ==
    LET rp == b.f["repoPath"].v
    IN  DirState(rp) = "absent" \/ DirState(rp) \notin {"gitfile", "gitdir"}

\* C8: a create request with a required field absent, not a string or empty,
\* or with a repoPath that does not exist or is no git repository, never runs
\* git worktree add and never launches a process, and is answered 400
\* validation.
C8_CreateValidatesBeforeActing ==
    \A r \in Reqs :
        (IsCreate(r) /\ (SomeCreateFieldBad(rq[r].body) \/ RepoPathBad(rq[r].body))) =>
            /\ rq[r].gitAddCalls = 0
            /\ rq[r].spawned = 0
            /\ proc[r].state = "none"
            /\ (Done(r) /\ requestJson(rq[r].body) = NoError) =>
                    /\ rq[r].resp.status = 400
                    /\ rq[r].resp.error = "validation"

C8_Witness ==
    \E r \in Reqs :
        /\ IsCreate(r) /\ Done(r)
        /\ ~SomeCreateFieldBad(rq[r].body)
        /\ Field(r, "repoPath") = PlainDir
        /\ rq[r].resp.status = 400

\* the required fields of each route
RequiredFields(kind) ==
    IF kind = "create" THEN CreateRequiredFields
    ELSE IF kind = "open" THEN OpenRequiredFields
    ELSE <<"terminalCommand">>

\* the payload is malformed: no JSON, no JSON object, or a required field
\* absent, no string or empty
Malformed(kind, b) ==
    \/ b.t \in {"unparseable", "null", "number"}
    \/ \E i \in 1..Len(RequiredFields(kind)) :
        LET v == b.f[RequiredFields(kind)[i]]
        IN  v.t # "string" \/ v.v = <<>>

\* C9: every create, open or test request with a malformed payload is
\* answered 400 with error "validation" and a message.
C9_MalformedIs400 ==
    \A r \in Reqs :
        (Done(r) /\ Malformed(rq[r].kind, rq[r].body)) =>
            /\ rq[r].resp.status = 400
            /\ rq[r].resp.error = "validation"
            /\ rq[r].resp.message.text # "absent"

\* C10: a create or open request that has launched a process has already
\* been answered 200, whatever the process does (still running, exited
\* non-zero, output reading failed); the answer never changes afterwards,
\* and the service does not die.
C10_FireAndForget ==
    /\ [](~crashed)
    /\ [](\A r \in Reqs :
            (IsLaunch(r) /\ proc[r].state # "none") =>
                /\ Done(r)
                /\ rq[r].resp.status = 200
                /\ rq[r].resp.success = "true")
    /\ [][\A r \in Reqs : (IsLaunch(r) /\ Done(r)) => rq'[r] = rq[r]]_vars

C10_Witness ==
    \E r1, r2 \in Reqs :
        /\ IsLaunch(r1) /\ rq[r1].resp.status = 200
        /\ proc[r1].state = "running"
        /\ IsLaunch(r2) /\ rq[r2].resp.status = 200
        /\ proc[r2].state = "exit1" /\ proc[r2].drain = "failed"
        /\ "error: Error capturing process output" \in proc[r2].log

IsTest(r) == rq[r].kind = "test"

\* the command a test request previews, after substitution
TestExpanded(r) ==
    replaceTokens(Field(r, "terminalCommand"), TestTokens(rq[r].body))

\* C11: a test request whose process exited by itself while the timeout was
\* pending (with exit code 0 or 1, and without a failed read of its output)
\* is answered 200 success:true with the expanded command and that exit
\* code; a test request whose process had not exited when the timeout fired
\* is answered with a failure; a test request is answered exactly once.
C11_CaptureOutcome ==
    \A r \in Reqs :
        (IsTest(r) /\ Done(r) /\ rq[r].spawned = 1 /\ proc[r].drain # "failed") =>
            /\ rq[r].responses = 1
            /\ proc[r].beforeTimeout =>
                    /\ rq[r].resp.status = 200
                    /\ rq[r].resp.success = "true"
                    /\ rq[r].resp.expandedCommand = TestExpanded(r)
                    /\ rq[r].resp.exitCode = ExitCodeOf(proc[r])
            /\ (proc[r].timer = "fired" /\ ~proc[r].beforeTimeout) =>
                    /\ rq[r].resp.status # 200
                    /\ rq[r].resp.success = "false"

\* C12: once a test request has been answered with the timeout failure, the
\* process it spawned is not running.
C12_TimeoutKillsProcess ==
    \A r \in Reqs :
        (IsTest(r) /\ Done(r)
         /\ rq[r].caught.message.text = "Command timed out") =>
            proc[r].state # "running"

\* the token values the launch of request r substitutes
LaunchTokens(r) ==
    IF IsTest(r) THEN TestTokens(rq[r].body)
    ELSE [directory |-> rq[r].dir, issueId |-> Field(r, "issueId"),
          branchName |-> Field(r, "branchName")]

\* the expanded command of request r has no token
ZeroTokens(r) ==
    Len(parseCommand(replaceTokens(Field(r, "terminalCommand"),
                                   LaunchTokens(r)))) = 0

\* request r got as far as the call of the launch
LaunchReached(r) ==
    /\ Done(r)
    /\ \/ IsCreate(r) /\ rq[r].gitExit = 0
       \/ IsOpen(r) /\ rq[r].passed = {"exists", "worktree"}
       \/ IsTest(r) /\ requestJson(rq[r].body) = NoError
                    /\ validateTestRequest(rq[r].body) = NoError

PlaceholderAt(s, i) ==
    IF MatchAt(s, PatDirectory, i) THEN PatDirectory
    ELSE IF MatchAt(s, PatIssueId, i) THEN PatIssueId
    ELSE IF MatchAt(s, PatBranchName, i) THEN PatBranchName
    ELSE <<>>

ValueOf(pat, tokens) ==
    IF pat = PatDirectory THEN tokens.directory
    ELSE IF pat = PatIssueId THEN tokens.issueId
    ELSE tokens.branchName

\* one pass over the original template from position i: a placeholder is
\* replaced by its value as it is, every other character is copied
RECURSIVE SinglePass(_, _, _)
SinglePass(s, tokens, i) ==
    IF i > Len(s) THEN <<>>
    ELSE LET pat == PlaceholderAt(s, i)
         IN  IF pat # <<>>
             THEN ValueOf(pat, tokens) \o SinglePass(s, tokens, i + Len(pat))
             ELSE <<s[i]>> \o SinglePass(s, tokens, i + 1)

\* C14: the result of replaceTokens is the original template with every
\* {directory}, {issueId} and {branchName} replaced by its value verbatim,
\* in one pass: text brought in by a value is not substituted again, and a
\* template without a placeholder comes back unchanged.
C14_SinglePassVerbatim ==
    px.fn = "replaceTokens" =>
        px.out = SinglePass(px.arg.command, px.arg.tokens, 1)

\* the part each character of a command plays, from position i on, s and d
\* telling whether a single or a double quote is open: "toggle" for a quote
\* that opens or closes a span (a quote outside a span of the other type),
\* "quoted" for any other character inside a span, "plain" outside
RECURSIVE Classes(_, _, _, _)
Classes(cmd, i, s, d) ==
    IF i > Len(cmd) THEN <<>>
    ELSE IF cmd[i] = "'" /\ ~d
         THEN <<"toggle">> \o Classes(cmd, i + 1, ~s, d)
    ELSE IF cmd[i] = "\"" /\ ~s
         THEN <<"toggle">> \o Classes(cmd, i + 1, s, ~d)
    ELSE IF s \/ d
         THEN <<"quoted">> \o Classes(cmd, i + 1, s, d)
    ELSE <<"plain">> \o Classes(cmd, i + 1, s, d)

\* the tokens of a command whose characters play the parts cls, when the
\* plain characters of sep separate tokens: toggles are dropped, separators
\* end the token before them, every other character joins the token of its
\* neighbours
RECURSIVE TokensFrom(_, _, _, _, _)
TokensFrom(cmd, cls, sep, i, current) ==
    IF i > Len(cmd) THEN (IF current = <<>> THEN <<>> ELSE <<current>>)
    ELSE IF cls[i] = "toggle" THEN TokensFrom(cmd, cls, sep, i + 1, current)
    ELSE IF cls[i] = "plain" /\ cmd[i] \in sep
         THEN (IF current = <<>> THEN <<>> ELSE <<current>>)
              \o TokensFrom(cmd, cls, sep, i + 1, <<>>)
    ELSE TokensFrom(cmd, cls, sep, i + 1, Append(current, cmd[i]))

RefTokens(cmd, sep) == TokensFrom(cmd, Classes(cmd, 1, FALSE, FALSE), sep, 1, <<>>)

\* the characters of cmd that are no toggling quote and no separator
KeptChars(cmd, sep) ==
    LET cls == Classes(cmd, 1, FALSE, FALSE)
        Keep(i) == cls[i] = "quoted" \/ (cls[i] = "plain" /\ cmd[i] \notin sep)
        F[i \in 0..Len(cmd)] ==
            IF i = 0 THEN <<>>
            ELSE IF Keep(i) THEN Append(F[i - 1], cmd[i]) ELSE F[i - 1]
    IN  F[Len(cmd)]

\* the quoted spans of cmd: the characters between an opening quote and the
\* quote that closes it (or the end of the command)
QuotedSpans(cmd) ==
    LET cls == Classes(cmd, 1, FALSE, FALSE)
    IN  {SubSeq(cmd, a, b) : <<a, b>> \in
            {<<a, b>> \in (1..Len(cmd)) \X (1..Len(cmd)) :
                /\ a <= b
                /\ \A i \in a..b : cls[i] = "quoted"
                /\ a > 1 /\ cls[a - 1] = "toggle"
                /\ b = Len(cmd) \/ cls[b + 1] = "toggle"}}

\* t contains u as a run of consecutive characters
Contains(t, u) == \E k \in 0..(Len(t) - Len(u)) : SubSeq(t, k + 1, k + Len(u)) = u

\* C15: parseCommand is quote-aware: a quote outside a span of the other
\* quote type toggles and is removed, every character inside a span (spaces
\* and quotes of the other type included) is kept, and the characters of
\* each quoted span lie together in one token; the tokens are those of the
\* command split at its spaces outside quotes.
C15_QuoteAware ==
    px.fn = "parseCommand" =>
        LET cmd == px.arg.command IN
        /\ Flatten(px.out) = KeptChars(cmd, {" "})
        /\ \A u \in QuotedSpans(cmd) :
                \E t \in 1..Len(px.out) : Contains(px.out[t], u)
        /\ px.out = RefTokens(cmd, {" "})

\* the command 'a " (a space and a double quote inside single quotes)
C15_Witness ==
    /\ px.fn = "parseCommand"
    /\ px.arg.command = <<"'", " ", "\"", "'">>
    /\ px.out = << <<" ", "\"">> >>

Whitespace == {" ", "\t", "\n"}

\* C16: the tokens of parseCommand are those of the command split at every
\* whitespace character (space, tab, newline) outside quotes: no token is
\* empty, and no token holds a whitespace character that was outside quotes.
C16_SplitOnWhitespace ==
    px.fn = "parseCommand" =>
        LET cmd == px.arg.command IN
        /\ \A t \in 1..Len(px.out) : px.out[t] # <<>>
        /\ Flatten(px.out) = KeptChars(cmd, Whitespace)
        /\ px.out = RefTokens(cmd, Whitespace)

\* C17: every create, open and test request is answered exactly once and
\* nothing is retried: git worktree add runs at most once and Bun.spawn is
\* called at most once per request, the first error caught ends the request
\* (a failed git worktree add included), and an answered request takes no
\* further step.
C17_OneResponseNoRetry ==
    /\ [](\A r \in Reqs :
            /\ rq[r].responses <= 1
            /\ Done(r) <=> rq[r].responses = 1
            /\ rq[r].gitAddCalls <= 1
            /\ rq[r].spawnCalls <= 1
            /\ rq[r].caught # NoError => Done(r)
            /\ (rq[r].gitAddCalls = 1 /\ rq[r].gitExit # 0
                /\ rq[r].pc # "afterAdd") =>
                    Done(r) /\ rq[r].caught.name = "GitError")
    /\ [][\A r \in Reqs : Done(r) => rq'[r] = rq[r]]_vars

C17_Witness ==
    \E r1, r2 \in Reqs :
        /\ IsCreate(r1) /\ Done(r1) /\ rq[r1].responses = 1
        /\ rq[r1].gitAddCalls = 1 /\ rq[r1].gitExit # 0
        /\ IsTest(r2) /\ Done(r2) /\ rq[r2].responses = 1
        /\ rq[r2].spawnCalls = 1 /\ rq[r2].caught.message.text = "spawn failed"

\* the error classes errorToResponse knows
ClassifiedErrors ==
    {"ValidationError", "WorktreeExistsError", "BranchExistsError", "GitError"}

\* request r ended with an exception of no known class
Unclassified(r) ==
    /\ Done(r)
    /\ rq[r].caught # NoError
    /\ rq[r].caught.name \notin ClassifiedErrors

\* C18: a request that ends with an exception of no known class is answered
\* 500 with error "internal" and the fixed message "An unexpected error
\* occurred", nothing of the exception in the body; two such requests on the
\* same route get the same response whatever their exceptions were.
C18_UnclassifiedIsInternal ==
    /\ \A r \in Reqs :
            Unclassified(r) =>
                /\ rq[r].resp.status = 500
                /\ rq[r].resp.error = "internal"
                /\ rq[r].resp.message = Msg("An unexpected error occurred", <<>>)
                /\ rq[r].resp.directory = <<>>
    /\ \A r1, r2 \in Reqs :
            (Unclassified(r1) /\ Unclassified(r2)
             /\ rq[r1].kind = rq[r2].kind) =>
                rq[r1].resp = rq[r2].resp

C18_Witness ==
    \E r1, r2 \in Reqs :
        /\ IsCreate(r1) /\ Unclassified(r1) /\ rq[r1].caught.name = "SyntaxError"
        /\ IsCreate(r2) /\ Unclassified(r2)
        /\ rq[r2].caught.message.text = "Empty command after parsing"
        /\ rq[r1].resp = rq[r2].resp

\* C19: whenever the dialog is in the conflict state, the last answer was a
\* 409 "exists" and the state holds the directory of that answer, and the
\* open request "Open Existing" sends names that directory; after a 409
\* "branch_exists" the dialog is not in the conflict state.
C19_ConflictIsExistingWorktree ==
    /\ dlg.type = "conflict" =>
            /\ dlg.answer.status = 409
            /\ dlg.answer.error = "exists"
            /\ dlg.directory = JStr(dlg.answer.directory)
            /\ dlg.answer.directory # <<>>
    /\ dlg.call = "open" =>
            /\ dlg.answer.error = "exists"
            /\ dlg.body.f["directory"] = JStr(dlg.answer.directory)
            /\ validateOpenRequest(dlg.body) = NoError

\* the Origin header names an extension (chrome-extension:// followed by
\* something) or is exactly https://linear.app
AllowedOrigin(origin) ==
    /\ origin.t = "string"
    /\ \/ /\ Len(origin.v) > Len(ChromeExtensionPrefix)
          /\ SubSeq(origin.v, 1, Len(ChromeExtensionPrefix)) = ChromeExtensionPrefix
       \/ origin.v = LinearOrigin

\* C20: a response of the router carries Access-Control-Allow-Origin if and
\* only if the Origin of the request is an allowed origin, and then the
\* header echoes that Origin; this holds for the 204 of OPTIONS, for the
\* answers of the route handlers (errors included) and for 404.
C20_CorsHeaderIffAllowed ==
    px.fn = "handle" =>
        LET origin == px.arg.request.origin IN
        /\ (px.out.headers.allowOrigin # JUndef) <=> AllowedOrigin(origin)
        /\ AllowedOrigin(origin) => px.out.headers.allowOrigin = origin
        /\ px.out.status =
                IF px.arg.request.method = "OPTIONS" THEN 204
                ELSE IF <<px.arg.request.method, px.arg.request.path>> \in Routes
                THEN px.arg.handlerStatus
                ELSE 404

C20_Witness ==
    /\ px.fn = "handle"
    /\ px.arg.request.method = "POST"
    /\ px.arg.request.path = "/nope"
    /\ px.arg.request.origin = JStr(LinearOrigin)
    /\ px.out.status = 404
    /\ px.out.headers.allowOrigin = JStr(LinearOrigin)

C22_NoTrailingHyphen ==
    (/\ px.fn = "generateBranchName"
     /\ px.arg.issueId[Len(px.arg.issueId)] # "-") =>
        px.out[Len(px.out)] # "-"


\* the record the parser is to return for one entry of the porcelain text
ExpectedInfo(e) ==
    [path |-> JStr(e.path),
     head |-> IF e.head = <<>> THEN JUndef ELSE JStr(e.head),
     branch |-> IF e.ref = <<>> THEN JUndef ELSE JStr(Drop(e.ref, Len(RefsHeads)))]

ExpectedInfos(es) == [i \in 1..Len(es) |-> ExpectedInfo(es[i])]

WorktreeLines(text) == SelectSeq(SplitLines(text), LAMBDA l : startsWith(l, WorktreePrefix))

\* C23: parseWorktreeListOutput / listWorktrees returns exactly one record
\* per "worktree" line of the porcelain text, in the order of the text, with
\* or without a blank line after the last record; each record has the path
\* of its worktree line, the head id of its HEAD line and the branch of its
\* branch line without the refs/heads/ prefix
C23_OneRecordPerWorktreeLine ==
    /\ px.fn = "parseWorktreeListOutput" =>
        /\ Len(px.out) = Len(WorktreeLines(px.arg.output))
        /\ px.out = ExpectedInfos(px.arg.entries)
    /\ (px.fn = "listWorktrees" /\ px.arg.exitCode = 0) =>
        /\ Len(px.out.worktrees) = Len(WorktreeLines(px.arg.stdout))
        /\ px.out.worktrees = ExpectedInfos(px.arg.entries)

\* two records, the last one without a blank line after it, were parsed
C23_Witness ==
    /\ px.fn = "parseWorktreeListOutput"
    /\ Len(px.arg.entries) = 2
    /\ px.arg.output[Len(px.arg.output)] # "\n"
    /\ px.arg.entries[1].ref # <<>>
    /\ px.arg.entries[2].path # px.arg.entries[1].path
    /\ Len(px.out) = 2


\* n is the final segment of the path p: it has no slash, only slashes
\* follow it, and it is the whole of p or follows a slash; it is empty only
\* when p has no segment
IsFinalSegment(n, p) ==
    /\ \A i \in 1..Len(n) : n[i] # "/"
    /\ \E k \in 0..Len(p) :
        /\ k + Len(n) <= Len(p)
        /\ SubSeq(p, Len(p) - k - Len(n) + 1, Len(p) - k) = n
        /\ \A i \in (Len(p) - k + 1)..Len(p) : p[i] = "/"
        /\ Len(p) - k - Len(n) > 0 => p[Len(p) - k - Len(n)] = "/"
    /\ n = <<>> => \A i \in 1..Len(p) : p[i] = "/"

Segments(p) == {SubSeq(p, i, j) : i \in 1..(Len(p) + 1), j \in 0..Len(p)}

\* C24: buildWorktreePath(R, repoPath, B) is R + "/" + N + "/" + B exactly,
\* N being the final segment of repoPath; R and B are taken as they are (a
\* slash at the end of R is kept), and the call reads and changes nothing of
\* the file system
C24_WorktreePathExact ==
    /\ [](px.fn = "buildWorktreePath" =>
            \E n \in Segments(px.arg.repoPath) :
                /\ IsFinalSegment(n, px.arg.repoPath)
                /\ px.out = px.arg.worktreeRoot \o <<"/">> \o n \o <<"/">>
                            \o px.arg.branchName)
    /\ [][px'.fn = "buildWorktreePath" => UNCHANGED <<fs, branches>>]_vars

\* a path was built from a worktree root and a repository path that both
\* end with a slash
C24_Witness ==
    /\ px.fn = "buildWorktreePath"
    /\ px.arg.worktreeRoot = <<"/", "w", "/">>
    /\ px.arg.repoPath = <<"/", "a", "/", "r", "/">>
    /\ px.arg.branchName = <<"f", "/", "x">>
    /\ px.out = <<"/", "w", "/", "/", "r", "/", "f", "/", "x">>


\* the exit code of the git command a probe runs (0 when it runs none)
ProbeGitExit ==
    IF px.arg.probe = "checkBranchExists"
    THEN GitShowRefExit(px.arg.path, px.arg.branchName)
    ELSE IF px.arg.probe = "validateRepoPath" /\ exists(px.arg.path)
    THEN GitRevParseExit(px.arg.path)
    ELSE 0

\* the answer of a probe is "false": exists is false, or the path is refused
\* as no repository
AnswersFalse(res) ==
    IF px.arg.probe = "validateRepoPath" THEN res.threw.name = "ValidationError"
    ELSE res.threw = NoError /\ res.value.exists = FALSE

C25_WitnessNoRepo ==
    /\ px.fn = "probe"
    /\ px.arg.probe = "validateRepoPath"
    /\ px.arg.path = PlainDir
    /\ Len(px.out) = 2
    /\ px.out[2].threw.name = "ValidationError"


\* the create request r was provisioned (git worktree add exited with 0) and
\* answered with a failure
LaunchFailed(r) ==
    /\ rq[r].kind = "create"
    /\ rq[r].pc = "done"
    /\ rq[r].gitExit = 0
    /\ rq[r].resp.status # 200

\* C26: in POST /worktree/create the terminal is launched only after git
\* worktree add has succeeded; when the launch then fails (empty command
\* after parsing, or an error of the spawn) the request is answered 500 while
\* the new worktree and the new branch stay in place, and a retry with the
\* same body is answered 409 "exists"
C26_LaunchFailureKeepsWorktree ==
    \A r \in Reqs :
        /\ (rq[r].kind = "create"
            /\ (rq[r].spawnCalls > 0
                \/ rq[r].caught.message.text = "Empty command after parsing")) =>
                rq[r].gitAddCalls = 1 /\ rq[r].gitExit = 0
        /\ LaunchFailed(r) =>
            /\ rq[r].resp.status = 500
            /\ rq[r].resp.error = "internal"
            /\ rq[r].caught.message.text \in {"Empty command after parsing",
                                              "spawn failed"}
            /\ fs[rq[r].dir] = "gitfile"
            /\ Field(r, "branchName") \in branches
            /\ \A q \in Reqs \ {r} :
                (/\ rq[q].kind = "create"
                 /\ rq[q].body = rq[r].body
                 /\ rq[q].entry.ds = "gitfile"
                 /\ rq[q].pc = "done") =>
                    /\ rq[q].resp.status = 409
                    /\ rq[q].resp.error = "exists"
                    /\ rq[q].resp.directory = rq[r].dir
                    /\ rq[q].gitAddCalls = 0

\* a create request whose command is blank was provisioned and answered 500,
\* and the same request sent again was answered 409 "exists"
C26_Witness ==
    /\ LaunchFailed("r1")
    /\ rq["r1"].caught.message.text = "Empty command after parsing"
    /\ rq["r2"].kind = "create"
    /\ rq["r2"].body = rq["r1"].body
    /\ rq["r2"].entry.ds = "gitfile"
    /\ rq["r2"].resp.status = 409
    /\ fs[TargetDir] = "gitfile"
    /\ NewBranch \in branches


\* C27: the CORS middleware never blocks a request that is not OPTIONS: the
\* same request with any other Origin header (allowed, not allowed, none)
\* runs the same route handler and is answered with the same status and the
\* same body; only the Access-Control-* headers differ
C27_CorsNeverBlocks ==
    (px.fn = "handle" /\ px.arg.request.method # "OPTIONS") =>
        /\ px.out.ran = (<<px.arg.request.method, px.arg.request.path>> \in Routes)
        /\ px.out.ran => px.out.status = px.arg.handlerStatus
                         /\ px.out.body = "handler"
        /\ \A o \in Origins :
            LET other == RouterHandle([px.arg.request EXCEPT !.origin = o],
                                      px.arg.handlerStatus)
            IN  /\ other.ran = px.out.ran
                /\ other.status = px.out.status
                /\ other.body = px.out.body

\* a create request from an origin that is not allowed ran its handler and
\* was answered without CORS headers
C27_Witness ==
    /\ px.fn = "handle"
    /\ px.arg.request.method = "POST"
    /\ px.arg.request.path = "/worktree/create"
    /\ px.arg.request.origin = JStr(LinearOrigin \o <<".", "e">>)
    /\ px.arg.handlerStatus = 200
    /\ px.out.ran
    /\ px.out.status = 200
    /\ px.out.headers.allowOrigin = JUndef


\* C28: the dialog leaves the closed state only through the click on the
\* Worktree button, which takes it to the form: no load of the
\* configuration, failed or not, no answer of the server and no timer makes
\* a closed dialog visible, and a dialog dismissed from the error state
\* stays closed until the next click
C28_ClosedUntilClick ==
    [][(dlg.type = "closed" /\ dlg'.type # "closed") =>
            (dlg'.lastEvent = "openDialog" /\ dlg'.type = "form")]_vars


\* C29: after two calls of addProjectMapping for different project codes
\* have both completed, in whatever order their steps were taken, the stored
\* configuration has both mappings and every mapping stored before
C29_BothMappingsStored ==
    (\A c \in Callers : store.call[c].pc = "done") =>
        /\ store.has
        /\ \A c \in Callers :
            <<store.call[c].workspace, store.call[c].projectCode>> \in store.maps
        /\ store.before \subseteq store.maps

\* C30: daemon.sh stop, run while the server is running, sends SIGTERM and
\* ends with the PID file removed and the server process not running,
\* having sent SIGKILL if the server was still running after the wait
C30_StopStopsServer ==
    (dmn.command = "stop" /\ dmn.wasRunning /\ dmn.pc = "exited") =>
        /\ dmn.sigterm
        /\ ~dmn.pidFile
        /\ dmn.server = "dead"

============================================================================
